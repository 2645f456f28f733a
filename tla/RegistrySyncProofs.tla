-------------------------- MODULE RegistrySyncProofs --------------------------
(***************************************************************************)
(* As long as none of the four races happens the viewer's view of the      *)
(* owner's claims, once everything sent was handled, is those claims.      *)
(***************************************************************************)
EXTENDS RegistrySync, SequenceTheorems, TLAPS

-----------------------------------------------------------------------------
(* Sequences *)

LEMMA AppendIs ==
  ASSUME NEW S, NEW s \in Seq(S), NEW e \in S
  PROVE  /\ Append(s, e) \in Seq(S)
         /\ Len(Append(s, e)) = Len(s) + 1 /\ Len(s) \in Nat
         /\ DOMAIN s = 1..Len(s) /\ DOMAIN Append(s, e) = 1..(Len(s) + 1)
         /\ \A i \in 1..Len(s) : Append(s, e)[i] = s[i]
         /\ Append(s, e)[Len(s) + 1] = e
         /\ Append(s, e) # <<>>
  OBVIOUS

LEMMA TailIs ==
  ASSUME NEW S, NEW s \in Seq(S), s # <<>>
  PROVE  /\ Tail(s) \in Seq(S) /\ Head(s) \in S /\ Head(s) = s[1]
         /\ Len(s) \in Nat \ {0} /\ Len(Tail(s)) = Len(s) - 1
         /\ DOMAIN s = 1..Len(s) /\ DOMAIN Tail(s) = 1..(Len(s) - 1)
         /\ \A i \in 1..(Len(s) - 1) : Tail(s)[i] = s[i + 1]
  OBVIOUS

\* Without its head a queue ends with the same broadcast, if one is left.
LEMMA LastOfTail ==
  ASSUME NEW S, NEW s \in Seq(S), s # <<>>, NEW holds,
         NEW places \in SUBSET (1..Len(s)), NEW rest,
         rest = {i \in 1..(Len(s) - 1) : i + 1 \in places},
         LastSays(s, places, holds)
  PROVE  LastSays(Tail(s), rest, holds)
<1> SUFFICES ASSUME NEW i \in rest, \A j \in rest : j <= i
             PROVE  Tail(s)[i].type = "RegisterName" <=> holds
  BY DEF LastSays
<1>1. i \in 1..(Len(s) - 1) /\ i + 1 \in places /\ Tail(s)[i] = s[i + 1] /\ Len(s) \in Nat
  BY TailIs
<1>2. \A j \in places : j <= i + 1
  <2> TAKE j \in places
  <2>1. j \in 1..Len(s)
    OBVIOUS
  <2>2. CASE j = 1
    BY <1>1, <2>2
  <2>3. CASE j # 1
    <3>1. j - 1 \in 1..(Len(s) - 1) /\ (j - 1) + 1 = j
      BY <1>1, <2>1, <2>3
    <3>2. j - 1 \in rest
      BY <3>1
    <3> QED BY <1>1, <2>1, <3>2
  <2> QED BY <2>2, <2>3
<1> QED BY <1>1, <1>2 DEF LastSays

\* A queue that grows by something else ends with the same broadcast.
LEMMA LastOfSame ==
  ASSUME NEW S, NEW s \in Seq(S), NEW e \in S, NEW holds,
         NEW places \in SUBSET (1..Len(s)), LastSays(s, places, holds)
  PROVE  LastSays(Append(s, e), places, holds)
<1>1. \A i \in places : Append(s, e)[i] = s[i]
  BY AppendIs
<1> QED BY <1>1 DEF LastSays

\* One that grows by a true broadcast ends with it.
LEMMA LastOfAppend ==
  ASSUME NEW S, NEW s \in Seq(S), NEW e \in S, NEW holds,
         NEW places \in SUBSET (1..(Len(s) + 1)), Len(s) + 1 \in places,
         e.type = "RegisterName" <=> holds
  PROVE  LastSays(Append(s, e), places, holds)
<1>1. \A i \in places : (\A j \in places : j <= i) => i = Len(s) + 1
  OBVIOUS
<1> QED BY <1>1, AppendIs DEF LastSays

-----------------------------------------------------------------------------
(* Types *)

LEMMA SidesAre == "owner" \in Sides /\ "viewer" \in Sides
  BY DEF Sides

LEMMA ConnsAre == Conns \subseteq Nat \ {0} /\ None = 0 /\ Conns = 1..MaxConns /\ MaxConns \in Nat
  BY RegistrySyncAssumption DEF Conns, None

\* What a step of a handler does to the phases.
LEMMA AdvanceIs ==
  ASSUME TypeOK, NEW side \in Sides, NEW c \in Conns, NEW from, NEW to \in Phases,
         Advance(side, c, from, to)
  PROVE  /\ handler' \in [Sides -> [Conns -> Phases]]
         /\ c <= dialed /\ handler[side][c] = from /\ handler'[side][c] = to
         /\ \A s \in Sides, d \in Conns :
              handler'[s][d] = IF s = side /\ d = c THEN to ELSE handler[s][d]
  BY DEF Advance, TypeOK

\* A message on the wire.
LEMMA WireIs ==
  ASSUME TypeOK, NEW c \in Conns
  PROVE  wire[c] \in Seq(Arrived \cup Snapshots)
  BY DEF TypeOK

LEMMA BroadcastsAre ==
  ASSUME NEW m \in Arrived \cup Snapshots
  PROVE  IF m.type = "AllNodeClaims"
           THEN m \in Snapshots /\ m.claims \in SUBSET Claims /\ m.conn \in Conns
           ELSE m \in Arrived /\ m.claim \in Claims /\ m.conn \in Conns
  BY DEF Arrived, Snapshots

\* What a write adds to a wire that is not broken.
LEMMA WriteIs ==
  ASSUME TypeOK, NEW c \in Conns, NEW m \in Arrived \cup Snapshots, Write(c, m)
  PROVE  /\ wire' \in [Conns -> Seq(Arrived \cup Snapshots)]
         /\ \A d \in Conns : d # c => wire'[d] = wire[d]
         /\ wire'[c] = IF c \in broken THEN wire[c] ELSE Append(wire[c], m)
<1>1. wire \in [Conns -> Seq(Arrived \cup Snapshots)] /\ wire[c] \in Seq(Arrived \cup Snapshots)
  BY DEF TypeOK
<1>2. Append(wire[c], m) \in Seq(Arrived \cup Snapshots)
  BY <1>1, AppendIs
<1> QED BY <1>1, <1>2 DEF Write

\* What reading takes from it.
LEMMA ReadIs ==
  ASSUME TypeOK, NEW c \in Conns, Read(c)
  PROVE  /\ wire' \in [Conns -> Seq(Arrived \cup Snapshots)]
         /\ \A d \in Conns : d # c => wire'[d] = wire[d]
         /\ wire[c] # <<>> /\ wire'[c] = Tail(wire[c])
         /\ Head(wire[c]) = wire[c][1] /\ 1 \in DOMAIN wire[c]
         /\ Head(wire[c]) \in Arrived \cup Snapshots
         /\ handler.viewer[c] = "reading"
<1>1. wire \in [Conns -> Seq(Arrived \cup Snapshots)] /\ wire[c] \in Seq(Arrived \cup Snapshots)
  BY DEF TypeOK
<1>2. Tail(wire[c]) \in Seq(Arrived \cup Snapshots) /\ Head(wire[c]) \in Arrived \cup Snapshots
  BY <1>1, TailIs DEF Read
<1>3. Head(wire[c]) = wire[c][1] /\ 1 \in DOMAIN wire[c]
  BY <1>1, TailIs DEF Read
<1> QED BY <1>1, <1>2, <1>3 DEF Read

LEMMA SyncInit == Init => SyncInv
<1> SUFFICES ASSUME Init PROVE SyncInv
  OBVIOUS
<1>1. TypeOK
  <2>1. snapshot \in [Conns -> SUBSET Claims] /\ handler \in [Sides -> [Conns -> Phases]]
    BY DEF Init, Phases
  <2>2. wire \in [Conns -> Seq(Arrived \cup Snapshots)]
    BY DEF Init
  <2>3. dialed \in 0..MaxConns /\ seen \in 0..MaxConns /\ calls \in 0..MaxCalls /\ dialer \in Sides
    BY RegistrySyncAssumption DEF Init, None
  <2>4. held \in 0..Len(outbox)
    BY DEF Init
  <2>5. outbox \in Seq(Broadcasts) /\ arriving \in Seq(Arrived)
    BY DEF Init
  <2> QED BY <2>1, <2>2, <2>3, <2>4, <2>5 DEF Init, TypeOK
<1>2. ConnectionLives
  BY DEF Init, ConnectionLives
<1>3. InOrder
  <2>1. \A c \in Conns : wire[c] = <<>> /\ seen # c
    BY ConnsAre DEF Init
  <2>2. arriving = <<>> /\ DOMAIN arriving = {}
    BY DEF Init
  <2>3. \A c \in Conns : ~(c < dialed)
    BY ConnsAre DEF Init
  <2>4. \A c \in Conns : DOMAIN wire[c] = {}
    BY <2>1
  <2> QED BY <2>1, <2>2, <2>3, <2>4, SidesAre DEF Init, InOrder
<1>4. OwesTruth
  BY DEF Init, OwesTruth
<1>5. ViewHasReader
  BY DEF Init, ViewHasReader
<1>6. StreamIsTrue
  BY ConnsAre, SidesAre DEF Init, StreamIsTrue, OwnerSettled
<1> QED BY <1>1, <1>2, <1>3, <1>4, <1>5, <1>6 DEF SyncInv

\* The owner's registry.
LEMMA RegistryTypes ==
  ASSUME TypeOK, \/ \E claim \in Claims : Register(claim) \/ Unregister(claim)
                 \/ OwnerServe
  PROVE  TypeOK'
<1>1. ASSUME NEW claim \in Claims, Register(claim) \/ Unregister(claim)
      PROVE  TypeOK'
  <2>1. calls' \in 0..MaxCalls
    BY <1>1, RegistrySyncAssumption DEF Register, Unregister, Change, TypeOK
  <2>2. owed' \subseteq Broadcasts /\ claims' \subseteq Claims
    BY <1>1 DEF Register, Unregister, Change, TypeOK, Broadcasts
  <2> QED BY <1>1, <2>1, <2>2
      DEF Register, Unregister, Change, TypeOK, viewer, net, history
<1>2. CASE Broadcast
  <2> PICK m \in owed : owed' = {} /\ outbox' = IF nodeRegistries THEN Append(outbox, m) ELSE outbox
    BY <1>2 DEF Broadcast
  <2>1. outbox' \in Seq(Broadcasts) /\ held \in 0..Len(outbox')
    BY AppendIs DEF TypeOK
  <2> QED BY <1>2, <2>1 DEF Broadcast, TypeOK, viewer, net, history
<1>3. ASSUME NEW c \in Conns, ForgetViewer(c)
      PROVE  TypeOK'
  <2>1. races' \subseteq Races /\ held' \in 0..Len(outbox')
    <3>1. Len(outbox) \in Nat
      BY AppendIs DEF TypeOK
    <3> QED BY <1>3, <3>1 DEF ForgetViewer, Happens, TypeOK, Races
  <2> QED BY <1>3, <2>1 DEF ForgetViewer, TypeOK, viewer, net
<1> QED BY <1>1, <1>2, <1>3 DEF OwnerServe

\* The owner's remoteMailboxes: what Transmit does.
LEMMA TransmitIs ==
  ASSUME TypeOK, Transmit
  PROVE  /\ outbox # <<>> /\ outbox' = Tail(outbox) /\ Head(outbox) \in Broadcasts
         /\ outbox' \in Seq(Broadcasts)
         /\ held' \in 0..Len(outbox') /\ held' = IF held > 0 THEN held - 1 ELSE 0
         /\ connection = None => wire' = wire /\ races' = races
         /\ connection # None =>
              /\ [type |-> Head(outbox).type, claim |-> Head(outbox).claim, conn |-> connection] \in Arrived
              /\ Write(connection,
                   [type |-> Head(outbox).type, claim |-> Head(outbox).claim, conn |-> connection])
         /\ races \subseteq races' /\ races' \subseteq Races
         /\ connection # None /\ held > 0 => "outdated" \in races'
         /\ connection # None /\ Overtakes(Head(outbox), connection) => "overtaken" \in races'
<1>1. outbox \in Seq(Broadcasts) /\ held \in 0..Len(outbox) /\ outbox # <<>>
  BY DEF TypeOK, Transmit
<1>2. outbox' \in Seq(Broadcasts) /\ Head(outbox) \in Broadcasts /\ Len(outbox') = Len(outbox) - 1
  BY <1>1, TailIs DEF Transmit
<1>3. held' \in 0..Len(outbox') /\ held' = IF held > 0 THEN held - 1 ELSE 0
  <2>1. Len(outbox) \in Nat \ {0}
    BY <1>1, TailIs
  <2> QED BY <1>1, <1>2, <2>1 DEF Transmit
<1>4. connection # None =>
        [type |-> Head(outbox).type, claim |-> Head(outbox).claim, conn |-> connection] \in Arrived
  BY <1>2 DEF TypeOK, Broadcasts, Arrived
<1>5. races \subseteq races' /\ races' \subseteq Races
  BY DEF Transmit, TypeOK, Races
<1> QED BY <1>1, <1>2, <1>3, <1>4, <1>5 DEF Transmit

LEMMA TransmitTypes ==
  ASSUME TypeOK, Transmit
  PROVE  TypeOK'
<1>1. wire' \in [Conns -> Seq(Arrived \cup Snapshots)]
  <2>1. CASE connection = None
    BY <2>1, TransmitIs DEF TypeOK
  <2>2. CASE connection # None
    <3>1. connection \in Conns
      BY <2>2 DEF TypeOK
    <3> QED BY <2>2, <3>1, TransmitIs, WriteIs
  <2> QED BY <2>1, <2>2
<1> QED BY <1>1, TransmitIs DEF Transmit, TypeOK, maps, viewer, net

\* The owner's connections.
LEMMA OwnerHandlerTypes ==
  ASSUME TypeOK, NEW c \in Conns, OwnerHandler(c)
  PROVE  TypeOK'
<1>1. handler' \in [Sides -> [Conns -> Phases]]
  <2>1. \E from \in Phases, to \in Phases : Advance("owner", c, from, to)
    BY DEF OwnerHandler, AddNodeRegistry, SetConnection, TakeSnapshot, SendSnapshot, OwnerEnds, Phases
  <2> QED BY <2>1, AdvanceIs, SidesAre
<1>2. CASE AddNodeRegistry(c)
  BY <1>1, <1>2 DEF AddNodeRegistry, TypeOK, viewer, net, history
<1>3. CASE SetConnection(c)
  BY <1>1, <1>3 DEF SetConnection, TypeOK, maps, viewer, net, history
<1>4. CASE TakeSnapshot(c)
  BY <1>1, <1>4 DEF TakeSnapshot, TypeOK, maps, viewer, net, history
<1>5. CASE SendSnapshot(c)
  <2>1. [type |-> "AllNodeClaims", claims |-> snapshot[c], conn |-> c] \in Snapshots
    BY DEF Snapshots, TypeOK
  <2>2. wire' \in [Conns -> Seq(Arrived \cup Snapshots)]
    BY <1>5, <2>1, WriteIs DEF SendSnapshot
  <2> QED BY <1>1, <1>5, <2>2 DEF SendSnapshot, TypeOK, maps, viewer, net, history
<1>6. CASE OwnerEnds(c)
  BY <1>1, <1>6 DEF OwnerEnds, TypeOK, viewer, net, history
<1> QED BY <1>2, <1>3, <1>4, <1>5, <1>6 DEF OwnerHandler

\* What Forward does.
LEMMA ForwardIs ==
  ASSUME TypeOK, NEW m, Forward(m)
  PROVE  /\ arriving # <<>> /\ m = arriving[1] /\ 1 \in DOMAIN arriving /\ m \in Arrived
         /\ m.conn \in Conns /\ m.claim \in Claims
         /\ arriving' = Tail(arriving) /\ arriving' \in Seq(Arrived)
         /\ seen' = (IF m.conn > seen THEN m.conn ELSE seen) /\ seen' \in 0..MaxConns
         /\ races \subseteq races' /\ races' \subseteq Races
         /\ handler.viewer[m.conn] = "over" => "late" \in races'
<1>1. arriving \in Seq(Arrived) /\ arriving # <<>>
  BY DEF TypeOK, Forward
<1>2. m \in Arrived /\ m = arriving[1] /\ 1 \in DOMAIN arriving /\ Tail(arriving) \in Seq(Arrived)
  BY <1>1, TailIs DEF Forward
<1>3. m.conn \in Conns /\ m.claim \in Claims
  BY <1>2 DEF Arrived
<1>4. seen' = (IF m.conn > seen THEN m.conn ELSE seen) /\ seen' \in 0..MaxConns
  BY <1>3, ConnsAre DEF Forward, Hears, TypeOK
<1> QED BY <1>1, <1>2, <1>3, <1>4 DEF Forward, Happens, TypeOK, Races

\* The viewer.
LEMMA ViewerTypes ==
  ASSUME TypeOK, ViewerServe \/ \E c \in Conns : ViewerHandler(c)
  PROVE  TypeOK'
<1>1. ASSUME NEW m, HandleRegisterName(m) \/ HandleUnregisterName(m)
      PROVE  TypeOK'
  <2>1. Forward(m)
    BY <1>1 DEF HandleRegisterName, HandleUnregisterName
  <2>2. view' \subseteq Claims
    BY <1>1, <2>1, ForwardIs DEF HandleRegisterName, HandleUnregisterName, TypeOK
  <2> QED BY <2>1, <2>2, ForwardIs DEF Forward, TypeOK, owner, maps, net
<1>2. ASSUME NEW c \in Conns, StartReading(c)
      PROVE  TypeOK'
  <2>1. handler' \in [Sides -> [Conns -> Phases]]
    BY <1>2, AdvanceIs, SidesAre DEF StartReading, Phases
  <2> QED BY <1>2, <2>1 DEF StartReading, TypeOK, owner, maps, viewer, net, history
<1>3. ASSUME NEW c \in Conns, ReadAllNodeClaims(c)
      PROVE  TypeOK'
  <2>1. Read(c)
    BY <1>3 DEF ReadAllNodeClaims
  <2>2. view' \subseteq Claims
    BY <1>3, <2>1, ReadIs, BroadcastsAre DEF ReadAllNodeClaims, TypeOK
  <2>3. seen' \in 0..MaxConns
    BY <1>3, ConnsAre DEF ReadAllNodeClaims, Hears, TypeOK
  <2> QED BY <1>3, <2>1, <2>2, <2>3, ReadIs DEF ReadAllNodeClaims, Read, TypeOK, owner, maps, net
<1>4. ASSUME NEW c \in Conns, ReadBroadcast(c)
      PROVE  TypeOK'
  <2>1. Read(c)
    BY <1>4 DEF ReadBroadcast
  <2>2. Head(wire[c]) \in Arrived
    BY <1>4, <2>1, ReadIs, BroadcastsAre DEF ReadBroadcast
  <2>3. arriving' \in Seq(Arrived)
    BY <1>4, <2>2, AppendIs DEF ReadBroadcast, TypeOK
  <2> QED BY <1>4, <2>1, <2>3, ReadIs DEF ReadBroadcast, Read, TypeOK, owner, maps, net
<1>5. ASSUME NEW c \in Conns, HandleDisconnected(c)
      PROVE  TypeOK'
  <2>1. handler' \in [Sides -> [Conns -> Phases]]
    BY <1>5, AdvanceIs, SidesAre DEF HandleDisconnected, Phases
  <2>2. wire' \in [Conns -> Seq(Arrived \cup Snapshots)]
    BY <1>5 DEF HandleDisconnected, TypeOK
  <2>3. races' \subseteq Races
    BY <1>5 DEF HandleDisconnected, Happens, TypeOK, Races
  <2> QED BY <1>5, <2>1, <2>2, <2>3 DEF HandleDisconnected, TypeOK, owner, maps, net
<1> QED BY <1>1, <1>2, <1>3, <1>4, <1>5 DEF ViewerServe, ViewerHandler

\* The network.
LEMMA NetTypes ==
  ASSUME TypeOK, \/ Dial
                 \/ \E c \in Conns : Break(c) \/ \E side \in Sides : HandshakeFails(side, c)
  PROVE  TypeOK'
<1>1. CASE Dial
  <2>1. dialed' \in 0..MaxConns
    BY <1>1, RegistrySyncAssumption DEF Dial, TypeOK
  <2> QED BY <1>1, <2>1 DEF Dial, TypeOK, owner, maps, viewer, history
<1>2. ASSUME NEW c \in Conns, Break(c)
      PROVE  TypeOK'
  BY <1>2 DEF Break, TypeOK, owner, maps, viewer, history
<1>3. ASSUME NEW c \in Conns, NEW side \in Sides, HandshakeFails(side, c)
      PROVE  TypeOK'
  <2>1. handler' \in [Sides -> [Conns -> Phases]]
    BY <1>3, AdvanceIs DEF HandshakeFails, Phases
  <2>2. wire' \in [Conns -> Seq(Arrived \cup Snapshots)]
    BY <1>3 DEF HandshakeFails, TypeOK
  <2> QED BY <1>3, <2>1, <2>2 DEF HandshakeFails, TypeOK, owner, maps, viewer, net, history
<1> QED BY <1>1, <1>2, <1>3

LEMMA TypesStep ==
  ASSUME TypeOK, [Next]_vars
  PROVE  TypeOK'
<1>1. CASE Next
  BY <1>1, RegistryTypes, TransmitTypes, OwnerHandlerTypes, ViewerTypes, NetTypes DEF Next
<1>2. CASE UNCHANGED vars
  BY <1>2 DEF TypeOK, vars, owner, maps, viewer, net, history
<1> QED BY <1>1, <1>2

-----------------------------------------------------------------------------
(* The order of the steps of the handlers *)

LEMMA ConnectionLivesStep ==
  ASSUME TypeOK, ConnectionLives, [Next]_vars
  PROVE  ConnectionLives'
<1>a. connection \in Conns \cup {None} /\ None \notin Conns
  BY ConnsAre DEF TypeOK
<1>b. snapshot \in [Conns -> SUBSET Claims]
  BY DEF TypeOK
<1>c. dialed \in Nat
  BY ConnsAre DEF TypeOK
<1>1. CASE UNCHANGED <<connection, handler, snapshot, dialed>>
  BY <1>1 DEF ConnectionLives
<1>2. ASSUME NEW c \in Conns, NEW from \in Phases, NEW to \in Phases,
             Advance("owner", c, from, to), dialed' = dialed,
             \/ /\ <<from, to>> \in {<<"handshake", "known">>, <<"handshake", "over">>}
                /\ UNCHANGED <<connection, snapshot>>
             \/ <<from, to>> = <<"known", "set">> /\ connection' = c /\ snapshot' = snapshot
             \/ /\ <<from, to>> = <<"set", "snapshot">> /\ connection' = connection
                /\ \A d \in Conns : d # c => snapshot'[d] = snapshot[d]
             \/ /\ <<from, to>> = <<"snapshot", "reading">> /\ connection' = connection
                /\ \A d \in Conns : snapshot'[d] = IF d = c THEN {} ELSE snapshot[d]
             \/ /\ <<from, to>> = <<"reading", "over">> /\ snapshot' = snapshot
                /\ connection' = IF connection = c THEN None ELSE connection
      PROVE  ConnectionLives'
  <2>1. /\ c <= dialed /\ handler.owner[c] = from /\ handler'.owner[c] = to
        /\ \A d \in Conns : d # c => handler'.owner[d] = handler.owner[d]
        /\ \A d \in Conns : handler'.viewer[d] = handler.viewer[d]
    BY <1>2, AdvanceIs, SidesAre
  <2>2. (connection # None => handler.owner[connection] \in {"set", "snapshot", "reading"})'
    BY <1>a, <1>2, <2>1 DEF ConnectionLives
  <2>3. (\A d \in Conns : snapshot[d] # {} => handler.owner[d] = "snapshot")'
    BY <1>b, <1>2, <2>1 DEF ConnectionLives
  <2>4. (\A d \in Conns : d > dialed => \A side \in Sides : handler[side][d] = "handshake")'
    BY <1>c, <1>2, <2>1, ConnsAre DEF ConnectionLives, Sides
  <2> QED BY <2>2, <2>3, <2>4 DEF ConnectionLives
<1>3. ASSUME NEW c \in Conns, OwnerHandler(c)
      PROVE  ConnectionLives'
  <2>1. CASE AddNodeRegistry(c)
    BY <1>2, <2>1 DEF AddNodeRegistry, Phases, net
  <2>2. CASE SetConnection(c)
    BY <1>2, <2>2 DEF SetConnection, Phases, net
  <2>3. CASE TakeSnapshot(c)
    BY <1>2, <1>b, <2>3 DEF TakeSnapshot, Phases, net
  <2>4. CASE SendSnapshot(c)
    BY <1>2, <1>b, <2>4 DEF SendSnapshot, Phases, net
  <2>5. CASE OwnerEnds(c)
    BY <1>2, <2>5 DEF OwnerEnds, Phases, net
  <2> QED BY <1>3, <2>1, <2>2, <2>3, <2>4, <2>5 DEF OwnerHandler
<1>7. ASSUME NEW c \in Conns, NEW from \in Phases, NEW to \in Phases,
             Advance("viewer", c, from, to), UNCHANGED <<connection, snapshot, dialed>>
      PROVE  ConnectionLives'
  <2>1. /\ c <= dialed
        /\ \A d \in Conns : d # c => handler'.viewer[d] = handler.viewer[d]
        /\ \A d \in Conns : handler'.owner[d] = handler.owner[d]
    BY <1>7, AdvanceIs, SidesAre
  <2>2. (connection # None => handler.owner[connection] \in {"set", "snapshot", "reading"})'
    BY <1>a, <1>7, <2>1 DEF ConnectionLives
  <2>3. (\A d \in Conns : snapshot[d] # {} => handler.owner[d] = "snapshot")'
    BY <1>7, <2>1 DEF ConnectionLives
  <2>4. (\A d \in Conns : d > dialed => \A side \in Sides : handler[side][d] = "handshake")'
    BY <1>c, <1>7, <2>1, ConnsAre DEF ConnectionLives, Sides
  <2> QED BY <2>2, <2>3, <2>4 DEF ConnectionLives
<1>8. CASE Dial
  BY <1>8, <1>c, ConnsAre DEF Dial, ConnectionLives, owner
<1>9. ASSUME NEW c \in Conns, NEW side \in Sides, HandshakeFails(side, c)
      PROVE  ConnectionLives'
  BY <1>9, <1>2, <1>7 DEF HandshakeFails, Phases, net, owner, Sides
<1>10. CASE UNCHANGED vars
  BY <1>10, <1>1 DEF vars, owner, net
<1>11. CASE \E claim \in Claims : Register(claim) \/ Unregister(claim)
  BY <1>11, <1>1 DEF Register, Unregister, Change, net
<1>12. CASE OwnerServe \/ Transmit
  BY <1>12, <1>1 DEF OwnerServe, Broadcast, ForgetViewer, Transmit, net
<1>13. CASE ViewerServe
  BY <1>13, <1>1 DEF ViewerServe, HandleRegisterName, HandleUnregisterName, Forward, owner, net
<1>14. ASSUME NEW c \in Conns, ViewerHandler(c)
       PROVE  ConnectionLives'
  <2>1. CASE StartReading(c) \/ HandleDisconnected(c)
    BY <1>7, <2>1 DEF StartReading, HandleDisconnected, Phases, net, owner
  <2>2. CASE ReadAllNodeClaims(c) \/ ReadBroadcast(c)
    BY <2>2, <1>1 DEF ReadAllNodeClaims, ReadBroadcast, Read, owner, net
  <2> QED BY <1>14, <2>1, <2>2 DEF ViewerHandler
<1>15. ASSUME NEW c \in Conns, Break(c)
       PROVE  ConnectionLives'
  BY <1>15, <1>1 DEF Break, owner
<1> QED BY <1>3, <1>8, <1>9, <1>10, <1>11, <1>12, <1>13, <1>14, <1>15 DEF Next

\* A handler that a step does not advance stays where it is; one that ends has a
\* broken connection, or was over before.
LEMMA EndsBroken ==
  ASSUME TypeOK, Next
  PROVE  /\ \A side \in Sides, c \in Conns :
              handler'[side][c] = "over" => c \in broken \/ handler[side][c] = "over"
         /\ \A side \in Sides, c \in Conns : handler[side][c] = "over" => handler'[side][c] = "over"
         /\ \A c \in Conns : handler.viewer[c] = "reading" => handler'.viewer[c] \in {"reading", "over"}
         /\ \A c \in Conns : handler'.viewer[c] \in {handler.viewer[c], "reading", "over"}
         /\ \A c \in Conns : handler'.owner[c] \in {"handshake", "known"} =>
              handler.owner[c] \in {"handshake", "known"}
         /\ broken \subseteq broken' /\ dialed <= dialed'
<1> DEFINE Q ==
      /\ \A side \in Sides, c \in Conns :
           handler'[side][c] = "over" => c \in broken \/ handler[side][c] = "over"
      /\ \A side \in Sides, c \in Conns : handler[side][c] = "over" => handler'[side][c] = "over"
      /\ \A c \in Conns : handler.viewer[c] = "reading" => handler'.viewer[c] \in {"reading", "over"}
      /\ \A c \in Conns : handler'.viewer[c] \in {handler.viewer[c], "reading", "over"}
      /\ \A c \in Conns : handler'.owner[c] \in {"handshake", "known"} =>
           handler.owner[c] \in {"handshake", "known"}
      /\ broken \subseteq broken' /\ dialed <= dialed'
<1> SUFFICES Q
  OBVIOUS
<1>0. dialed \in Nat
  BY ConnsAre DEF TypeOK
<1>1. CASE UNCHANGED <<handler, broken, dialed>>
  BY <1>0, <1>1
<1>2. ASSUME NEW c \in Conns, AddNodeRegistry(c) PROVE Q
  BY <1>0, <1>2, AdvanceIs, SidesAre DEF AddNodeRegistry, Phases, net
<1>3. ASSUME NEW c \in Conns, SetConnection(c) PROVE Q
  BY <1>0, <1>3, AdvanceIs, SidesAre DEF SetConnection, Phases, net
<1>4. ASSUME NEW c \in Conns, TakeSnapshot(c) PROVE Q
  BY <1>0, <1>4, AdvanceIs, SidesAre DEF TakeSnapshot, Phases, net
<1>5. ASSUME NEW c \in Conns, SendSnapshot(c) PROVE Q
  <2>1. Advance("owner", c, "snapshot", "reading") /\ UNCHANGED <<broken, dialed>>
    BY <1>5 DEF SendSnapshot, net
  <2> QED BY <1>0, <2>1, AdvanceIs, SidesAre DEF Phases
<1>6. ASSUME NEW c \in Conns, OwnerEnds(c) PROVE Q
  BY <1>0, <1>6, AdvanceIs, SidesAre DEF OwnerEnds, Phases, net
<1>7. ASSUME NEW c \in Conns, StartReading(c) PROVE Q
  BY <1>0, <1>7, AdvanceIs, SidesAre DEF StartReading, Phases, net
<1>8. ASSUME NEW c \in Conns, HandleDisconnected(c) PROVE Q
  BY <1>0, <1>8, AdvanceIs, SidesAre DEF HandleDisconnected, Phases, net
<1>9. CASE Dial
  BY <1>0, <1>9 DEF Dial
<1>10. ASSUME NEW c \in Conns, NEW side \in Sides, HandshakeFails(side, c) PROVE Q
  <2>1. /\ handler[side][c] = "handshake" /\ c \in broken
        /\ \A s \in Sides, d \in Conns :
             handler'[s][d] = IF s = side /\ d = c THEN "over" ELSE handler[s][d]
    BY <1>10, AdvanceIs DEF HandshakeFails, Phases
  <2>2. UNCHANGED <<broken, dialed>>
    BY <1>10 DEF HandshakeFails, net
  <2> QED BY <1>0, <2>1, <2>2, SidesAre
<1>11. ASSUME NEW c \in Conns, Break(c) PROVE Q
  BY <1>0, <1>11 DEF Break
<1>12. CASE \E claim \in Claims : Register(claim) \/ Unregister(claim)
  BY <1>12, <1>1 DEF Register, Unregister, Change, net
<1>13. CASE OwnerServe \/ Transmit
  BY <1>13, <1>1 DEF OwnerServe, Broadcast, ForgetViewer, Transmit, net
<1>14. CASE ViewerServe
  BY <1>14, <1>1 DEF ViewerServe, HandleRegisterName, HandleUnregisterName, Forward, net
<1>15. ASSUME NEW c \in Conns, ReadAllNodeClaims(c) \/ ReadBroadcast(c) PROVE Q
  BY <1>15, <1>1 DEF ReadAllNodeClaims, ReadBroadcast, Read, net
<1> QED BY <1>2, <1>3, <1>4, <1>5, <1>6, <1>7, <1>8, <1>9, <1>10, <1>11, <1>12, <1>13, <1>14, <1>15
        DEF Next, OwnerHandler, ViewerHandler

\* A connection that carried nothing still does not, before setConnection.
LEMMA NothingBefore ==
  ASSUME TypeOK, ConnectionLives, InOrder, Next, NEW c \in Conns,
         handler'.owner[c] \in {"handshake", "known"}
  PROVE  wire'[c] = <<>> /\ seen' # c /\ \A i \in DOMAIN arriving' : arriving'[i].conn # c
<1> DEFINE Q == wire'[c] = <<>> /\ seen' # c /\ \A i \in DOMAIN arriving' : arriving'[i].conn # c
<1>0. handler.owner[c] \in {"handshake", "known"}
  BY EndsBroken
<1>a. wire[c] = <<>> /\ seen # c /\ \A i \in DOMAIN arriving : arriving[i].conn # c
  BY <1>0 DEF InOrder
<1>1. CASE UNCHANGED <<wire, seen, arriving>>
  BY <1>1, <1>a
<1>2. CASE Transmit
  <2>1. seen' = seen /\ arriving' = arriving
    BY <1>2 DEF Transmit, viewer
  <2>2. connection # None => connection \in Conns /\ connection # c
    BY <1>0 DEF ConnectionLives, TypeOK
  <2>3. wire'[c] = wire[c]
    BY <1>2, <2>2, TransmitIs, WriteIs DEF TypeOK
  <2> QED BY <1>a, <2>1, <2>3
<1>3. ASSUME NEW d \in Conns, SendSnapshot(d) PROVE Q
  <2>1. d # c /\ seen' = seen /\ arriving' = arriving
    BY <1>0, <1>3 DEF SendSnapshot, Advance, viewer, history
  <2>2. [type |-> "AllNodeClaims", claims |-> snapshot[d], conn |-> d] \in Arrived \cup Snapshots
    BY DEF Snapshots, TypeOK
  <2>3. wire'[c] = wire[c]
    BY <1>3, <2>1, <2>2, WriteIs DEF SendSnapshot
  <2> QED BY <1>a, <2>1, <2>3
<1>4. ASSUME NEW d \in Conns, ReadAllNodeClaims(d) PROVE Q
  <2>1. d # c
    BY <1>a, <1>4 DEF ReadAllNodeClaims, Read
  <2>2. seen' # c /\ arriving' = arriving
    BY <1>a, <1>4, <2>1 DEF ReadAllNodeClaims, Hears
  <2>3. wire'[c] = wire[c]
    BY <1>4, <2>1, ReadIs DEF ReadAllNodeClaims
  <2> QED BY <1>a, <2>2, <2>3
<1>5. ASSUME NEW d \in Conns, ReadBroadcast(d) PROVE Q
  <2>1. d # c
    BY <1>a, <1>5 DEF ReadBroadcast, Read
  <2>2. wire'[c] = wire[c] /\ 1 \in DOMAIN wire[d] /\ Head(wire[d]) = wire[d][1]
    BY <1>5, <2>1, ReadIs DEF ReadBroadcast
  <2>3. Head(wire[d]).conn = d
    BY <2>2 DEF InOrder
  <2>4. Head(wire[d]) \in Arrived
    BY <1>5, ReadIs, BroadcastsAre DEF ReadBroadcast
  <2>5. arriving \in Seq(Arrived) /\ arriving' = Append(arriving, Head(wire[d])) /\ seen' = seen
    BY <1>5 DEF ReadBroadcast, TypeOK
  <2>6. \A i \in DOMAIN arriving' : arriving'[i].conn # c
    BY <1>a, <2>1, <2>3, <2>4, <2>5, AppendIs
  <2> QED BY <1>a, <2>2, <2>5, <2>6
<1>6. ASSUME NEW m, Forward(m) PROVE Q
  <2>1. m.conn # c /\ seen' # c /\ wire' = wire
    BY <1>a, <1>6, ForwardIs DEF Forward
  <2>2. arriving \in Seq(Arrived) /\ arriving # <<>> /\ arriving' = Tail(arriving)
    BY <1>6 DEF Forward, TypeOK
  <2>3. \A i \in DOMAIN arriving' : arriving'[i].conn # c
    BY <1>a, <2>2, TailIs
  <2> QED BY <1>a, <2>1, <2>3
<1>7. ASSUME NEW d \in Conns, HandleDisconnected(d) PROVE Q
  BY <1>7, <1>a DEF HandleDisconnected, TypeOK
<1>8. ASSUME NEW d \in Conns, NEW side \in Sides, HandshakeFails(side, d) PROVE Q
  BY <1>8, <1>a DEF HandshakeFails, viewer, history, TypeOK
<1>9. CASE \E claim \in Claims : Register(claim) \/ Unregister(claim)
  BY <1>9, <1>1 DEF Register, Unregister, Change, viewer, history
<1>10. CASE OwnerServe
  BY <1>10, <1>1 DEF OwnerServe, Broadcast, ForgetViewer, viewer, history
<1>11. CASE ViewerServe
  BY <1>11, <1>6 DEF ViewerServe, HandleRegisterName, HandleUnregisterName
<1>12. ASSUME NEW d \in Conns, OwnerHandler(d) PROVE Q
  BY <1>12, <1>1, <1>3
     DEF OwnerHandler, AddNodeRegistry, SetConnection, TakeSnapshot, OwnerEnds, viewer, history
<1>13. ASSUME NEW d \in Conns, ViewerHandler(d) PROVE Q
  BY <1>13, <1>1, <1>4, <1>5, <1>7 DEF ViewerHandler, StartReading, viewer, history
<1>14. CASE Dial \/ \E d \in Conns : Break(d)
  BY <1>14, <1>1 DEF Dial, Break, viewer, history
<1> QED BY <1>2, <1>8, <1>9, <1>10, <1>11, <1>12, <1>13, <1>14 DEF Next

\* What arrived was read by a handler, from its own connection.
LEMMA ArrivedInOrder ==
  ASSUME TypeOK, ConnectionLives, InOrder, Next
  PROVE  /\ \A i \in DOMAIN arriving' : handler'.viewer[arriving'[i].conn] # "handshake"
         /\ \A c \in Conns : \A i \in DOMAIN wire'[c] : wire'[c][i].conn = c
<1> DEFINE Q ==
      /\ \A i \in DOMAIN arriving' : arriving'[i].conn \in Conns /\ handler.viewer[arriving'[i].conn] # "handshake"
      /\ \A c \in Conns : \A i \in DOMAIN wire'[c] : wire'[c][i].conn = c
<1> SUFFICES Q
  BY EndsBroken
<1>a. \A i \in DOMAIN arriving : arriving[i].conn \in Conns /\ handler.viewer[arriving[i].conn] # "handshake"
  <2>1. \A i \in DOMAIN arriving : arriving[i].conn \in Conns
    <3>1. arriving \in Seq(Arrived)
      BY DEF TypeOK
    <3>2. \A i \in DOMAIN arriving : arriving[i] \in Arrived
      BY <3>1
    <3> QED BY <3>2 DEF Arrived
  <2> QED BY <2>1 DEF InOrder
<1>b. \A c \in Conns : \A i \in DOMAIN wire[c] : wire[c][i].conn = c
  BY DEF InOrder
<1>c. \A c \in Conns : wire[c] \in Seq(Arrived \cup Snapshots)
  BY WireIs
<1>1. CASE UNCHANGED <<wire, arriving>>
  BY <1>1, <1>a, <1>b
<1>2. ASSUME NEW d \in Conns, NEW m \in Arrived \cup Snapshots, m.conn = d, Write(d, m), arriving' = arriving
      PROVE  Q
  <2>1. \A i \in DOMAIN wire'[d] : wire'[d][i].conn = d
    <3>1. wire'[d] = IF d \in broken THEN wire[d] ELSE Append(wire[d], m)
      BY <1>2, WriteIs
    <3>2. wire[d] \in Seq(Arrived \cup Snapshots)
      BY <1>c
    <3>3. \A i \in DOMAIN Append(wire[d], m) :
            \/ Append(wire[d], m)[i] = m
            \/ i \in DOMAIN wire[d] /\ Append(wire[d], m)[i] = wire[d][i]
      BY <3>2, AppendIs
    <3>4. CASE d \in broken
      BY <1>b, <3>1, <3>4
    <3>5. CASE d \notin broken
      <4>1. wire'[d] = Append(wire[d], m)
        BY <3>1, <3>5
      <4> QED BY <1>2, <1>b, <3>3, <4>1
    <3> QED BY <3>4, <3>5
  <2> QED BY <1>2, <1>a, <1>b, <2>1, WriteIs
<1>3. CASE Transmit
  <2>1. CASE connection = None
    BY <1>1, <1>3, <2>1, TransmitIs DEF Transmit, viewer
  <2>2. CASE connection # None
    BY <1>2, <1>3, <2>2, TransmitIs DEF Transmit, viewer, TypeOK
  <2> QED BY <2>1, <2>2
<1>4. ASSUME NEW d \in Conns, SendSnapshot(d) PROVE Q
  <2>1. [type |-> "AllNodeClaims", claims |-> snapshot[d], conn |-> d] \in Arrived \cup Snapshots
    BY DEF Snapshots, TypeOK
  <2> QED BY <1>2, <1>4, <2>1 DEF SendSnapshot, viewer
<1>5. ASSUME NEW d \in Conns, Read(d) PROVE \A c \in Conns : \A i \in DOMAIN wire'[c] : wire'[c][i].conn = c
  <2>1. \A i \in DOMAIN wire'[d] : wire'[d][i].conn = d
    <3>1. wire'[d] = Tail(wire[d]) /\ wire[d] # <<>>
      BY <1>5, ReadIs
    <3>2. wire[d] \in Seq(Arrived \cup Snapshots)
      BY <1>c
    <3>3. \A i \in DOMAIN Tail(wire[d]) : \E j \in DOMAIN wire[d] : Tail(wire[d])[i] = wire[d][j]
      <4>1. \A i \in 1..(Len(wire[d]) - 1) : i + 1 \in 1..Len(wire[d]) /\ Tail(wire[d])[i] = wire[d][i + 1]
        BY <3>1, <3>2, TailIs
      <4> QED BY <3>1, <3>2, <4>1, TailIs
    <3> QED BY <1>b, <3>1, <3>3
  <2> QED BY <1>5, <1>b, <2>1, ReadIs
<1>6. ASSUME NEW d \in Conns, ReadAllNodeClaims(d) PROVE Q
  BY <1>6, <1>5, <1>a DEF ReadAllNodeClaims
<1>7. ASSUME NEW d \in Conns, ReadBroadcast(d) PROVE Q
  <2>1. Head(wire[d]) \in Arrived /\ handler.viewer[d] = "reading" /\ Head(wire[d]).conn = d
    BY <1>7, <1>b, ReadIs, BroadcastsAre DEF ReadBroadcast
  <2>2. arriving \in Seq(Arrived) /\ arriving' = Append(arriving, Head(wire[d]))
    BY <1>7 DEF ReadBroadcast, TypeOK
  <2>3. \A i \in DOMAIN arriving' : arriving'[i].conn \in Conns /\ handler.viewer[arriving'[i].conn] # "handshake"
    BY <1>a, <2>1, <2>2, AppendIs
  <2> QED BY <1>7, <1>5, <2>3 DEF ReadBroadcast
<1>8. ASSUME NEW m, Forward(m) PROVE Q
  <2>1. arriving \in Seq(Arrived) /\ arriving # <<>> /\ arriving' = Tail(arriving) /\ wire' = wire
    BY <1>8 DEF Forward, TypeOK
  <2> QED BY <1>a, <1>b, <2>1, TailIs
<1>9. ASSUME NEW d \in Conns, HandleDisconnected(d) \/ \E side \in Sides : HandshakeFails(side, d)
      PROVE  Q
  <2>1. arriving' = arriving /\ \A c \in Conns : wire'[c] = wire[c] \/ wire'[c] = <<>>
    BY <1>9 DEF HandleDisconnected, HandshakeFails, viewer, TypeOK
  <2> QED BY <1>a, <1>b, <2>1
<1>10. CASE \E claim \in Claims : Register(claim) \/ Unregister(claim)
  BY <1>10, <1>1 DEF Register, Unregister, Change, viewer
<1>11. CASE OwnerServe
  BY <1>11, <1>1 DEF OwnerServe, Broadcast, ForgetViewer, viewer
<1>12. CASE ViewerServe
  BY <1>12, <1>8 DEF ViewerServe, HandleRegisterName, HandleUnregisterName
<1>13. ASSUME NEW d \in Conns, OwnerHandler(d) PROVE Q
  BY <1>13, <1>1, <1>4 DEF OwnerHandler, AddNodeRegistry, SetConnection, TakeSnapshot, OwnerEnds, viewer
<1>14. ASSUME NEW d \in Conns, ViewerHandler(d) PROVE Q
  BY <1>14, <1>1, <1>6, <1>7, <1>9 DEF ViewerHandler, StartReading, viewer
<1>15. CASE Dial \/ \E d \in Conns : Break(d)
  BY <1>15, <1>1 DEF Dial, Break, viewer
<1>16. Q
  BY <1>3, <1>9, <1>10, <1>11, <1>12, <1>13, <1>14, <1>15 DEF Next
<1> QED BY <1>16

\* Handlers end because their connection broke, and losses come from handlers that ended.
LEMMA EndsInOrder ==
  ASSUME TypeOK, ConnectionLives, InOrder, Next
  PROVE  /\ \A side \in Sides, c \in Conns : handler'[side][c] = "over" => c \in broken'
         /\ broken' \subseteq 1..dialed'
         /\ \A c \in Conns : c < dialed' => c \in broken'
         /\ \A c \in losses' : handler'.owner[c] = "over"
         /\ \A c \in Conns : handler'.viewer[c] \in {"handshake", "reading", "over"}
<1>1. \A side \in Sides, c \in Conns : handler'[side][c] = "over" => c \in broken'
  BY EndsBroken DEF InOrder
<1>2. broken' \subseteq 1..dialed' /\ \A c \in Conns : c < dialed' => c \in broken'
  <2>0. dialed \in Nat /\ dialer \in Sides
    BY ConnsAre DEF TypeOK
  <2>1. CASE Dial
    <3>1. dialed' = dialed + 1 /\ broken' = broken /\ dialed \in 0..MaxConns
      BY <2>1 DEF Dial, TypeOK
    <3>2. ASSUME NEW c \in Conns, c < dialed' PROVE c \in broken
      <4>1. CASE c < dialed
        BY <4>1 DEF InOrder
      <4>2. CASE c = dialed
        BY <2>0, <2>1, <4>2, ConnsAre DEF Dial, InOrder
      <4> QED BY <2>0, <3>1, <3>2, <4>1, <4>2, ConnsAre
    <3> QED BY <2>0, <3>1, <3>2 DEF InOrder
  <2>2. ASSUME NEW c \in Conns, Break(c)
        PROVE  broken' \subseteq 1..dialed' /\ \A d \in Conns : d < dialed' => d \in broken'
    BY <2>0, <2>2, ConnsAre DEF Break, InOrder
  <2>3. CASE UNCHANGED <<broken, dialed>>
    BY <2>3 DEF InOrder
  <2>4. CASE \E claim \in Claims : Register(claim) \/ Unregister(claim)
    BY <2>4, <2>3 DEF Register, Unregister, Change, net
  <2>5. CASE OwnerServe \/ Transmit \/ ViewerServe
    BY <2>5, <2>3 DEF OwnerServe, Broadcast, ForgetViewer, Transmit, ViewerServe, HandleRegisterName,
                      HandleUnregisterName, Forward, net
  <2>6. ASSUME NEW c \in Conns, OwnerHandler(c) PROVE UNCHANGED <<broken, dialed>>
    BY <2>6 DEF OwnerHandler, AddNodeRegistry, SetConnection, TakeSnapshot, SendSnapshot, OwnerEnds, net
  <2>7. ASSUME NEW c \in Conns, ViewerHandler(c) PROVE UNCHANGED <<broken, dialed>>
    BY <2>7 DEF ViewerHandler, StartReading, ReadAllNodeClaims, ReadBroadcast, Read, HandleDisconnected, net
  <2>8. ASSUME NEW c \in Conns, NEW side \in Sides, HandshakeFails(side, c) PROVE UNCHANGED <<broken, dialed>>
    BY <2>8 DEF HandshakeFails, net
  <2> QED BY <2>1, <2>2, <2>3, <2>4, <2>5, <2>6, <2>7, <2>8 DEF Next
<1>3. \A c \in losses' : handler'.owner[c] = "over"
  <2>1. \A c \in losses' : c \in losses \/ (c \in Conns /\ handler'.owner[c] = "over")
    <3>1. CASE losses' \subseteq losses
      BY <3>1
    <3>2. ASSUME NEW c \in Conns, OwnerEnds(c)
          PROVE  \A d \in losses' : d \in losses \/ (d \in Conns /\ handler'.owner[d] = "over")
      BY <3>2, AdvanceIs, SidesAre DEF OwnerEnds, Phases
    <3>3. CASE \E claim \in Claims : Register(claim) \/ Unregister(claim)
      BY <3>3, <3>1 DEF Register, Unregister, Change
    <3>4. CASE OwnerServe \/ Transmit \/ ViewerServe
      BY <3>4, <3>1 DEF OwnerServe, Broadcast, ForgetViewer, Transmit, ViewerServe, HandleRegisterName,
                        HandleUnregisterName, Forward, owner, maps
    <3>5. ASSUME NEW c \in Conns, AddNodeRegistry(c) \/ SetConnection(c) \/ TakeSnapshot(c) \/ SendSnapshot(c)
          PROVE  losses' \subseteq losses
      BY <3>5 DEF AddNodeRegistry, SetConnection, TakeSnapshot, SendSnapshot, maps
    <3>6. ASSUME NEW c \in Conns, ViewerHandler(c) PROVE losses' \subseteq losses
      BY <3>6 DEF ViewerHandler, StartReading, ReadAllNodeClaims, ReadBroadcast, Read, HandleDisconnected, owner, maps
    <3>7. CASE Dial \/ \E c \in Conns : Break(c) \/ \E side \in Sides : HandshakeFails(side, c)
      BY <3>7, <3>1 DEF Dial, Break, HandshakeFails, owner, maps
    <3> QED BY <3>1, <3>2, <3>3, <3>4, <3>5, <3>6, <3>7 DEF Next, OwnerHandler
  <2>2. losses \subseteq Conns
    BY DEF TypeOK
  <2> QED BY <2>1, <2>2, EndsBroken, SidesAre DEF InOrder
<1>4. \A c \in Conns : handler'.viewer[c] \in {"handshake", "reading", "over"}
  BY EndsBroken DEF InOrder
<1> QED BY <1>1, <1>2, <1>3, <1>4

LEMMA InOrderStep ==
  ASSUME TypeOK, ConnectionLives, InOrder, [Next]_vars
  PROVE  InOrder'
<1>1. CASE Next
  BY <1>1, EndsInOrder, NothingBefore, ArrivedInOrder DEF InOrder
<1>2. CASE UNCHANGED vars
  BY <1>2 DEF InOrder, vars, owner, maps, viewer, net, history
<1> QED BY <1>1, <1>2

-----------------------------------------------------------------------------
(* What the owner owes, and what the viewer's view hangs on *)

\* The broadcast owed is the change just made.
LEMMA OwedStep ==
  ASSUME TypeOK, OwesTruth, Next
  PROVE  (\A m \in owed : owed = {m} /\ (m.type = "RegisterName" <=> m.claim \in claims))'
<1> DEFINE Q == \A m \in owed' : owed' = {m} /\ (m.type = "RegisterName" <=> m.claim \in claims')
<1> SUFFICES Q
  OBVIOUS
<1>1. CASE UNCHANGED <<owed, claims>>
  BY <1>1 DEF OwesTruth
<1>2. ASSUME NEW claim \in Claims, Register(claim) PROVE Q
  BY <1>2 DEF Register, Change
<1>3. ASSUME NEW claim \in Claims, Unregister(claim) PROVE Q
  BY <1>3 DEF Unregister, Change
<1>4. CASE OwnerServe
  BY <1>4, <1>1 DEF OwnerServe, Broadcast, ForgetViewer
<1>5. CASE Transmit \/ ViewerServe
  BY <1>5, <1>1 DEF Transmit, ViewerServe, HandleRegisterName, HandleUnregisterName, Forward, owner, maps
<1>6. ASSUME NEW c \in Conns, OwnerHandler(c) PROVE Q
  BY <1>6, <1>1 DEF OwnerHandler, AddNodeRegistry, SetConnection, TakeSnapshot, SendSnapshot, OwnerEnds, maps
<1>7. ASSUME NEW c \in Conns, ViewerHandler(c) PROVE Q
  BY <1>7, <1>1 DEF ViewerHandler, StartReading, ReadAllNodeClaims, ReadBroadcast, Read, HandleDisconnected,
                    owner, maps
<1>8. CASE Dial \/ \E c \in Conns : Break(c) \/ \E side \in Sides : HandshakeFails(side, c)
  BY <1>8, <1>1 DEF Dial, Break, HandshakeFails, owner, maps
<1> QED BY <1>2, <1>3, <1>4, <1>5, <1>6, <1>7, <1>8 DEF Next

\* A viewer that is known is reached by a handler, or its loss waits to be handled.
LEMMA KnownStep ==
  ASSUME TypeOK, OwesTruth, Next
  PROVE  (nodeRegistries => \E c \in Conns : c \in losses \/ handler.owner[c] \notin {"handshake", "over"})'
<1> DEFINE Known == \E c \in Conns : c \in losses \/ handler.owner[c] \notin {"handshake", "over"}
           Q == nodeRegistries' => \E c \in Conns : c \in losses' \/ handler'.owner[c] \notin {"handshake", "over"}
<1> SUFFICES Q
  OBVIOUS
<1>0. nodeRegistries => Known
  BY DEF OwesTruth
<1>1. CASE UNCHANGED <<nodeRegistries, losses, handler>>
  BY <1>1, <1>0
<1>2. ASSUME NEW c \in Conns, ForgetViewer(c) PROVE Q
  BY <1>2 DEF ForgetViewer
<1>3. ASSUME NEW c \in Conns, AddNodeRegistry(c) PROVE Q
  BY <1>3, AdvanceIs, SidesAre DEF AddNodeRegistry, Phases
<1>4. ASSUME NEW c \in Conns, SetConnection(c) \/ TakeSnapshot(c) \/ SendSnapshot(c) PROVE Q
  <2>1. \E to \in {"set", "snapshot", "reading"}, from \in Phases : Advance("owner", c, from, to)
    BY <1>4 DEF SetConnection, TakeSnapshot, SendSnapshot, Phases
  <2>2. handler'.owner[c] \notin {"handshake", "over"}
    BY <2>1, AdvanceIs, SidesAre DEF Phases
  <2> QED BY <2>2
<1>5. ASSUME NEW c \in Conns, OwnerEnds(c) PROVE Q
  BY <1>5 DEF OwnerEnds
<1>6. ASSUME NEW c \in Conns, NEW from \in Phases, NEW to \in Phases, NEW side \in Sides,
             Advance(side, c, from, to), UNCHANGED <<nodeRegistries, losses>>,
             side = "viewer" \/ from = "handshake"
      PROVE  Q
  <2>1. handler[side][c] = from /\ \A s \in Sides, d \in Conns :
          handler'[s][d] = IF s = side /\ d = c THEN to ELSE handler[s][d]
    BY <1>6, AdvanceIs
  <2> QED BY <1>0, <1>6, <2>1, SidesAre
<1>7. ASSUME NEW c \in Conns, ViewerHandler(c) PROVE Q
  <2>1. CASE StartReading(c) \/ HandleDisconnected(c)
    BY <1>6, <2>1, SidesAre DEF StartReading, HandleDisconnected, owner, maps, Phases
  <2>2. CASE ReadAllNodeClaims(c) \/ ReadBroadcast(c)
    BY <1>1, <2>2 DEF ReadAllNodeClaims, ReadBroadcast, Read, owner, maps
  <2> QED BY <1>7, <2>1, <2>2 DEF ViewerHandler
<1>8. ASSUME NEW c \in Conns, NEW side \in Sides, HandshakeFails(side, c) PROVE Q
  BY <1>6, <1>8 DEF HandshakeFails, owner, maps, Phases
<1>9. CASE \E claim \in Claims : Register(claim) \/ Unregister(claim)
  BY <1>9, <1>1 DEF Register, Unregister, Change
<1>10. CASE Broadcast
  BY <1>10, <1>1 DEF Broadcast
<1>11. CASE Transmit \/ ViewerServe
  BY <1>11, <1>1 DEF Transmit, ViewerServe, HandleRegisterName, HandleUnregisterName, Forward, owner, maps
<1>12. CASE Dial \/ \E c \in Conns : Break(c)
  BY <1>12, <1>1 DEF Dial, Break, owner, maps
<1> QED BY <1>2, <1>3, <1>4, <1>5, <1>7, <1>8, <1>9, <1>10, <1>11, <1>12 DEF Next, OwnerServe, OwnerHandler

\* Nothing is queued for a viewer that is not known.
LEMMA NothingQueuedStep ==
  ASSUME TypeOK, OwesTruth, Next
  PROVE  (~nodeRegistries => held = Len(outbox))'
<1> DEFINE Q == ~nodeRegistries' => held' = Len(outbox')
<1> SUFFICES Q
  OBVIOUS
<1>0. ~nodeRegistries => held = Len(outbox)
  BY DEF OwesTruth
<1>1. CASE UNCHANGED <<nodeRegistries, held, outbox>>
  BY <1>1, <1>0
<1>2. CASE Broadcast
  BY <1>2, <1>0 DEF Broadcast, history
<1>3. ASSUME NEW c \in Conns, ForgetViewer(c) PROVE Q
  BY <1>3 DEF ForgetViewer
<1>4. CASE Transmit
  <2>1. nodeRegistries' = nodeRegistries
    BY <1>4 DEF Transmit, maps
  <2>2. Len(outbox) \in Nat \ {0} /\ Len(outbox') = Len(outbox) - 1
    BY <1>4, TailIs DEF Transmit, TypeOK
  <2>3. held' = IF held > 0 THEN held - 1 ELSE 0
    BY <1>4 DEF Transmit
  <2> QED BY <1>0, <2>1, <2>2, <2>3
<1>5. ASSUME NEW c \in Conns, AddNodeRegistry(c) PROVE Q
  BY <1>5 DEF AddNodeRegistry
<1>6. ASSUME NEW c \in Conns, SetConnection(c) \/ TakeSnapshot(c) \/ SendSnapshot(c) \/ OwnerEnds(c) PROVE Q
  BY <1>6, <1>1 DEF SetConnection, TakeSnapshot, SendSnapshot, OwnerEnds, maps, history
<1>7. ASSUME NEW c \in Conns, ViewerHandler(c) PROVE Q
  BY <1>7, <1>1 DEF ViewerHandler, StartReading, ReadAllNodeClaims, ReadBroadcast, Read, HandleDisconnected,
                    owner, maps, history
<1>8. CASE ViewerServe
  BY <1>8, <1>1 DEF ViewerServe, HandleRegisterName, HandleUnregisterName, Forward, owner, maps
<1>9. CASE \E claim \in Claims : Register(claim) \/ Unregister(claim)
  BY <1>9, <1>1 DEF Register, Unregister, Change, history
<1>10. CASE Dial \/ \E c \in Conns : Break(c) \/ \E side \in Sides : HandshakeFails(side, c)
  BY <1>10, <1>1 DEF Dial, Break, HandshakeFails, owner, maps, history
<1> QED BY <1>2, <1>3, <1>4, <1>5, <1>6, <1>7, <1>8, <1>9, <1>10 DEF Next, OwnerServe, OwnerHandler

LEMMA OwesTruthStep ==
  ASSUME TypeOK, OwesTruth, [Next]_vars
  PROVE  OwesTruth'
<1>1. CASE Next
  BY <1>1, OwedStep, KnownStep, NothingQueuedStep DEF OwesTruth
<1>2. CASE UNCHANGED vars
  BY <1>2 DEF OwesTruth, vars, owner, maps, history
<1> QED BY <1>1, <1>2

\* Races are never forgotten.
LEMMA RacesGrow ==
  ASSUME TypeOK, Next
  PROVE  races \subseteq races'
<1>1. CASE races' = races
  BY <1>1
<1>2. CASE Transmit
  BY <1>2, TransmitIs
<1>3. CASE OwnerServe
  BY <1>3 DEF OwnerServe, Broadcast, ForgetViewer, Happens, history
<1>4. ASSUME NEW c \in Conns, OwnerHandler(c) PROVE races' = races
  BY <1>4 DEF OwnerHandler, AddNodeRegistry, SetConnection, TakeSnapshot, SendSnapshot, OwnerEnds, history
<1>5. ASSUME NEW c \in Conns, ViewerHandler(c) PROVE races \subseteq races'
  BY <1>5 DEF ViewerHandler, StartReading, ReadAllNodeClaims, ReadBroadcast, Read, HandleDisconnected, Happens, history
<1>6. CASE ViewerServe
  BY <1>6 DEF ViewerServe, HandleRegisterName, HandleUnregisterName, Forward, Happens
<1>7. CASE \E claim \in Claims : Register(claim) \/ Unregister(claim)
  BY <1>7 DEF Register, Unregister, Change, history
<1>8. CASE Dial \/ \E c \in Conns : Break(c) \/ \E side \in Sides : HandshakeFails(side, c)
  BY <1>8 DEF Dial, Break, HandshakeFails, history
<1> QED BY <1>2, <1>3, <1>4, <1>5, <1>6, <1>7, <1>8 DEF Next

LEMMA ViewHasReaderStep ==
  ASSUME TypeOK, InOrder, ViewHasReader, [Next]_vars
  PROVE  ViewHasReader'
<1> SUFFICES ASSUME races' \subseteq {"overtaken"}, view' # {}
             PROVE  \E c \in Conns : c <= seen' /\ handler'.viewer[c] = "reading"
  BY DEF ViewHasReader
<1>0. races \subseteq {"overtaken"} /\ seen \in Nat /\ Conns \subseteq Nat
  <2>1. races \subseteq races'
    BY RacesGrow DEF vars, history
  <2>2. seen \in Nat
    BY RegistrySyncAssumption DEF TypeOK
  <2> QED BY <2>1, <2>2, ConnsAre
<1>1. ASSUME view' = view, seen' = seen,
             \A c \in Conns : handler.viewer[c] = "reading" => handler'.viewer[c] = "reading"
      PROVE  \E c \in Conns : c <= seen' /\ handler'.viewer[c] = "reading"
  BY <1>0, <1>1 DEF ViewHasReader
<1>2. CASE UNCHANGED <<view, seen, handler>>
  BY <1>1, <1>2
<1>3. ASSUME NEW c \in Conns, ReadAllNodeClaims(c)
      PROVE  \E d \in Conns : d <= seen' /\ handler'.viewer[d] = "reading"
  <2>1. handler'.viewer[c] = "reading" /\ c <= seen'
    BY <1>0, <1>3 DEF ReadAllNodeClaims, Read, Hears
  <2> QED BY <2>1
<1>4. ASSUME NEW m, Forward(m)
      PROVE  \E d \in Conns : d <= seen' /\ handler'.viewer[d] = "reading"
  <2>1. m.conn \in Conns /\ handler.viewer[m.conn] # "handshake" /\ handler' = handler
    BY <1>4, ForwardIs DEF InOrder, Forward
  <2>2. handler.viewer[m.conn] # "over"
    BY <1>4, ForwardIs
  <2>3. handler.viewer[m.conn] = "reading"
    BY <2>1, <2>2 DEF InOrder
  <2>4. m.conn <= seen'
    <3>1. seen' = IF m.conn > seen THEN m.conn ELSE seen
      BY <1>4, ForwardIs
    <3>2. m.conn \in Nat /\ seen \in Nat
      BY <1>0, <2>1
    <3> QED BY <3>1, <3>2
  <2> QED BY <2>1, <2>3, <2>4
<1>5. ASSUME NEW c \in Conns, HandleDisconnected(c) PROVE FALSE
  BY <1>5 DEF HandleDisconnected
<1>6. ASSUME NEW c \in Conns, NEW from \in Phases, NEW to \in Phases, NEW side \in Sides,
             Advance(side, c, from, to), UNCHANGED <<view, seen>>,
             side = "owner" \/ from = "handshake"
      PROVE  \E d \in Conns : d <= seen' /\ handler'.viewer[d] = "reading"
  <2>1. handler[side][c] = from /\ \A s \in Sides, d \in Conns :
          handler'[s][d] = IF s = side /\ d = c THEN to ELSE handler[s][d]
    BY <1>6, AdvanceIs
  <2>2. \A d \in Conns : handler.viewer[d] = "reading" => handler'.viewer[d] = "reading"
    BY <1>6, <2>1, SidesAre
  <2> QED BY <1>1, <1>6, <2>2
<1>7. ASSUME NEW c \in Conns, OwnerHandler(c)
      PROVE  \E d \in Conns : d <= seen' /\ handler'.viewer[d] = "reading"
  BY <1>6, <1>7, SidesAre DEF OwnerHandler, AddNodeRegistry, SetConnection, TakeSnapshot, SendSnapshot, OwnerEnds,
                              viewer, history, Phases
<1>8. ASSUME NEW c \in Conns, StartReading(c) \/ \E side \in Sides : HandshakeFails(side, c)
      PROVE  \E d \in Conns : d <= seen' /\ handler'.viewer[d] = "reading"
  BY <1>6, <1>8, SidesAre DEF StartReading, HandshakeFails, viewer, history, Phases
<1>9. CASE \E claim \in Claims : Register(claim) \/ Unregister(claim)
  BY <1>9, <1>2 DEF Register, Unregister, Change, viewer, history
<1>10. CASE OwnerServe \/ Transmit
  BY <1>10, <1>2 DEF OwnerServe, Broadcast, ForgetViewer, Transmit, viewer, history
<1>11. CASE ViewerServe
  BY <1>11, <1>4 DEF ViewerServe, HandleRegisterName, HandleUnregisterName
<1>12. ASSUME NEW c \in Conns, ReadBroadcast(c)
       PROVE  \E d \in Conns : d <= seen' /\ handler'.viewer[d] = "reading"
  BY <1>12, <1>2 DEF ReadBroadcast, Read
<1>13. CASE Dial \/ \E c \in Conns : Break(c)
  BY <1>13, <1>2 DEF Dial, Break, viewer, history
<1>14. CASE UNCHANGED vars
  BY <1>14, <1>2 DEF vars, viewer, history
<1> QED BY <1>3, <1>5, <1>7, <1>8, <1>9, <1>10, <1>11, <1>12, <1>13, <1>14 DEF Next, ViewerHandler

-----------------------------------------------------------------------------
(* The stream of broadcasts and snapshots by the newest connection *)

LEMMA Numbers ==
  ASSUME TypeOK
  PROVE  dialed \in Nat /\ seen \in Nat /\ held \in Nat /\ Len(outbox) \in Nat /\ held <= Len(outbox)
<1>1. dialed \in Nat /\ seen \in Nat
  BY RegistrySyncAssumption DEF TypeOK
<1>2. Len(outbox) \in Nat
  BY AppendIs DEF TypeOK
<1> QED BY <1>1, <1>2 DEF TypeOK

\* The owner settles on a connection by registering the viewer, and then only a newer
\* connection unsettles it: no loss is handled without a race, no other handler of the
\* owner does anything.
LEMMA SettledBefore ==
  ASSUME SyncInv, Next, NEW c \in Conns, OwnerSettled(c)', races' \subseteq {"overtaken"}
  PROVE  /\ OwnerSettled(c) \/ AddNodeRegistry(c)
         /\ \A d \in Conns : ~ForgetViewer(d) /\ ~OwnerEnds(d)
         /\ \A d \in Conns : OwnerHandler(d) => d = c
         /\ races \subseteq {"overtaken"} /\ races \subseteq races'
<1> USE DEF SyncInv
<1>0. dialed \in Nat /\ Conns \subseteq Nat
  BY Numbers, ConnsAre
<1>1. races \subseteq {"overtaken"} /\ races \subseteq races'
  BY RacesGrow
<1>2. /\ c = dialed' /\ c \notin broken' /\ handler'.owner[c] # "handshake"
      /\ \A d \in Conns : d < c => handler'.owner[d] \in {"handshake", "over"} /\ d \notin losses'
  BY DEF OwnerSettled
<1>3. ASSUME NEW d \in Conns, ForgetViewer(d) PROVE FALSE
  <2>1. handler' = handler /\ dialed' = dialed /\ broken' = broken
    BY <1>3 DEF ForgetViewer, net
  <2>2. handler.owner[d] = "over" /\ d \in broken
    BY <1>3, SidesAre DEF ForgetViewer, InOrder
  <2>3. d <= dialed /\ d # c
    BY <1>0, <1>2, <2>1, <2>2 DEF InOrder
  <2>4. d < c
    BY <1>0, <1>2, <2>1, <2>3
  <2>5. \E e \in Conns : e > d /\ handler.owner[e] # "handshake"
    BY <1>0, <1>2, <2>1, <2>4
  <2>6. "undone" \in races'
    BY <1>3, <2>5 DEF ForgetViewer, Happens
  <2> QED BY <2>6
<1>4. ASSUME NEW d \in Conns, OwnerHandler(d) PROVE ~OwnerEnds(d) /\ d = c /\ (OwnerSettled(c) \/ AddNodeRegistry(c))
  <2>1. PICK from \in Phases, to \in Phases \ {"handshake"} : Advance("owner", d, from, to)
    BY <1>4 DEF OwnerHandler, AddNodeRegistry, SetConnection, TakeSnapshot, SendSnapshot, OwnerEnds, Phases
  <2>2. /\ d <= dialed /\ handler.owner[d] = from /\ handler'.owner[d] = to
        /\ \A e \in Conns : e # d => handler'.owner[e] = handler.owner[e]
    BY <2>1, AdvanceIs, SidesAre
  <2>3. dialed' = dialed /\ broken' = broken /\ losses \subseteq losses'
    BY <1>4 DEF OwnerHandler, AddNodeRegistry, SetConnection, TakeSnapshot, SendSnapshot, OwnerEnds, net, maps
  <2>4. ~OwnerEnds(d)
    <3>1. SUFFICES ASSUME OwnerEnds(d) PROVE FALSE
      OBVIOUS
    <3>2. d \in losses' /\ d \in broken
      BY <3>1 DEF OwnerEnds
    <3> QED BY <1>0, <1>2, <2>2, <2>3, <3>2
  <2>5. to \in {"known", "set", "snapshot", "reading"}
    BY <1>4, <2>2, <2>4, AdvanceIs, SidesAre
       DEF OwnerHandler, AddNodeRegistry, SetConnection, TakeSnapshot, SendSnapshot, Phases
  <2>6. d = c
    BY <1>0, <1>2, <2>2, <2>3, <2>5
  <2>7. ~AddNodeRegistry(d) => handler.owner[d] # "handshake"
    BY <1>4 DEF OwnerHandler, SetConnection, TakeSnapshot, SendSnapshot, OwnerEnds, Advance
  <2>8. ~AddNodeRegistry(c) => OwnerSettled(c)
    BY <1>0, <1>2, <2>2, <2>3, <2>6, <2>7 DEF OwnerSettled
  <2> QED BY <2>4, <2>6, <2>8
<1>5. ASSUME \A d \in Conns : handler'.owner[d] = handler.owner[d], dialed' = dialed, broken \subseteq broken', losses' = losses
      PROVE  OwnerSettled(c)
  BY <1>2, <1>5 DEF OwnerSettled
<1>6. CASE Dial
  <2>1. dialed' = dialed + 1 /\ handler' = handler
    BY <1>6 DEF Dial
  <2>2. handler.owner[c] = "handshake"
    BY <1>0, <1>2, <2>1, SidesAre DEF ConnectionLives
  <2> QED BY <1>2, <2>1, <2>2
<1>7. ASSUME NEW d \in Conns, NEW side \in Sides, HandshakeFails(side, d) PROVE OwnerSettled(c)
  <2>1. /\ d \in broken /\ handler[side][d] = "handshake"
        /\ \A s \in Sides, e \in Conns : handler'[s][e] = IF s = side /\ e = d THEN "over" ELSE handler[s][e]
    BY <1>7, AdvanceIs DEF HandshakeFails, Phases
  <2>2. dialed' = dialed /\ broken' = broken /\ losses' = losses
    BY <1>7 DEF HandshakeFails, net, owner, maps
  <2> QED BY <1>2, <2>1, <2>2, SidesAre DEF OwnerSettled
<1>8. ASSUME NEW d \in Conns, ViewerHandler(d) PROVE OwnerSettled(c)
  <2>1. dialed' = dialed /\ broken' = broken /\ losses' = losses
    BY <1>8 DEF ViewerHandler, StartReading, ReadAllNodeClaims, ReadBroadcast, Read, HandleDisconnected, net, owner, maps
  <2>2. \A e \in Conns : handler'.owner[e] = handler.owner[e]
    <3>1. handler' = handler \/ \E from \in Phases, to \in Phases : Advance("viewer", d, from, to)
      BY <1>8 DEF ViewerHandler, StartReading, ReadAllNodeClaims, ReadBroadcast, Read, HandleDisconnected, Phases
    <3> QED BY <3>1, AdvanceIs, SidesAre
  <2> QED BY <1>5, <2>1, <2>2
<1>9. ASSUME NEW claim \in Claims, Register(claim) \/ Unregister(claim) PROVE OwnerSettled(c)
  BY <1>9, <1>5 DEF Register, Unregister, Change, net
<1>10. ASSUME Broadcast \/ Transmit \/ ViewerServe PROVE OwnerSettled(c)
  BY <1>10, <1>5 DEF Broadcast, Transmit, ViewerServe, HandleRegisterName, HandleUnregisterName, Forward, net, owner, maps
<1>11. ASSUME NEW d \in Conns, Break(d) PROVE OwnerSettled(c)
  BY <1>11, <1>5 DEF Break, owner, maps
<1>12. OwnerSettled(c) \/ AddNodeRegistry(c)
  BY <1>3, <1>4, <1>6, <1>7, <1>8, <1>9, <1>10, <1>11 DEF Next, OwnerServe
<1>13. \A d \in Conns : ~ForgetViewer(d) /\ ~OwnerEnds(d)
  BY <1>3, <1>4 DEF OwnerHandler
<1> QED BY <1>1, <1>4, <1>12, <1>13

\* A step that changes nothing that matters to claim p on connection c.
LEMMA SameIsTrue ==
  ASSUME NEW c \in Conns, NEW p \in Claims, AllIsTrue(c, p), races \subseteq races',
         p \in claims' <=> p \in claims,
         InOwed(p)' = {} <=> InOwed(p) = {}, Unsent(p)' <=> Unsent(p),
         LastSays(outbox, InOutbox(p), p \in claims) => LastSays(outbox', InOutbox(p)', p \in claims),
         InWire(c, p)' = {} <=> InWire(c, p) = {},
         LastSays(wire[c], InWire(c, p), p \in claims) => LastSays(wire'[c], InWire(c, p)', p \in claims),
         InArriving(c, p)' = {} <=> InArriving(c, p) = {},
         LastSays(arriving, InArriving(c, p), p \in claims) => LastSays(arriving', InArriving(c, p)', p \in claims),
         Coming(c, p)' <=> Coming(c, p),
         handler'.owner[c] \in {"snapshot", "reading"} => handler.owner[c] \in {"snapshot", "reading"},
         SnapshotIsCorrected(c, p)'
  PROVE  AllIsTrue(c, p)'
<1>1. NewsIsTrue(c, p)'
  <2>1. \A queue, places : LastSays(queue, places, p \in claims') <=> LastSays(queue, places, p \in claims)
    BY DEF LastSays
  <2>2. NewsIsTrue(c, p)
    BY DEF AllIsTrue
  <2>3. (InOwed(p) = {} => LastSays(outbox, InOutbox(p), p \in claims))'
    BY <2>1, <2>2 DEF NewsIsTrue
  <2>4. (~Unsent(p) => LastSays(wire[c], InWire(c, p), p \in claims))'
    BY <2>1, <2>2 DEF NewsIsTrue
  <2>5. (~Unsent(p) /\ InWire(c, p) = {} => LastSays(arriving, InArriving(c, p), p \in claims))'
    BY <2>1, <2>2 DEF NewsIsTrue
  <2> QED BY <2>3, <2>4, <2>5 DEF NewsIsTrue
<1>2. RestIsTrue(c, p)'
  <2>1. RestIsTrue(c, p)
    BY DEF AllIsTrue
  <2>2. races' = {} => races = {}
    OBVIOUS
  <2>3. SUFFICES ASSUME ~Unsent(p)', InWire(c, p)' = {}, InArriving(c, p)' = {}
                 PROVE  /\ handler'.owner[c] \in {"snapshot", "reading"} /\ p \in claims' => Coming(c, p)'
                        /\ races' = {} /\ Coming(c, p)' => p \in claims'
    BY DEF RestIsTrue
  <2> QED BY <2>1, <2>2, <2>3 DEF RestIsTrue
<1> QED BY <1>1, <1>2 DEF AllIsTrue

\* A step that leaves the owner's broadcasts and the connection alone.
LEMMA FrameIsTrue ==
  ASSUME NEW c \in Conns, NEW p \in Claims, AllIsTrue(c, p), races \subseteq races',
         UNCHANGED <<claims, owed, outbox, held>>, wire'[c] = wire[c], snapshot'[c] = snapshot[c],
         InArriving(c, p)' = {} <=> InArriving(c, p) = {},
         LastSays(arriving, InArriving(c, p), p \in claims) => LastSays(arriving', InArriving(c, p)', p \in claims),
         seen' = c /\ p \in view' <=> seen = c /\ p \in view,
         handler'.owner[c] \in {"snapshot", "reading"} => handler.owner[c] \in {"snapshot", "reading"},
         handler'.owner[c] = "snapshot" <=> handler.owner[c] = "snapshot"
  PROVE  AllIsTrue(c, p)'
<1>1. InOwed(p)' = InOwed(p) /\ InOutbox(p)' = InOutbox(p) /\ InWire(c, p)' = InWire(c, p)
  BY DEF InOwed, InOutbox, InWire
<1>2. Unsent(p)' <=> Unsent(p)
  BY <1>1 DEF Unsent
<1>3. \A i : Snapshot(c, i)' <=> Snapshot(c, i)
  BY DEF Snapshot
<1>4. Coming(c, p)' <=> Coming(c, p)
  BY <1>3 DEF Coming
<1>5. SnapshotIsCorrected(c, p)'
  BY <1>1, <1>2, <1>3 DEF SnapshotIsCorrected, AllIsTrue
<1> QED BY <1>1, <1>2, <1>4, <1>5, SameIsTrue

\* What is true of every claim is, if the viewer has done with older connections.
LEMMA DeliversAfter ==
  ASSUME NEW c \in Conns, Delivers(c), nodeRegistries' = nodeRegistries, connection' = connection,
         handler'.owner[c] # "known" => handler.owner[c] # "known",
         ViewerSettled(c)' => ViewerSettled(c),
         ASSUME NEW p \in Claims, AllIsTrue(c, p), ViewerSettled(c), ViewerSettled(c)'
         PROVE  AllIsTrue(c, p)'
  PROVE  Delivers(c)'
BY DEF Delivers

\* A change of a claim is owed until it is broadcast.
LEMMA ChangeDelivers ==
  ASSUME TypeOK, NEW c \in Conns, Delivers(c), NEW claim \in Claims, Register(claim) \/ Unregister(claim)
  PROVE  Delivers(c)'
<1>1. /\ UNCHANGED <<nodeRegistries, outbox, connection, snapshot, view, arriving, handler, wire, races, seen, held>>
      /\ owed = {} /\ \E m \in Broadcasts : m.claim = claim /\ owed' = {m}
      /\ \A p \in Claims : p # claim => (p \in claims' <=> p \in claims)
  BY DEF Register, Unregister, Change, viewer, history, Broadcasts
<1>2. ASSUME NEW p \in Claims, AllIsTrue(c, p) PROVE AllIsTrue(c, p)'
  <2>1. InOutbox(p)' = InOutbox(p) /\ InWire(c, p)' = InWire(c, p) /\ InArriving(c, p)' = InArriving(c, p)
    BY <1>1 DEF InOutbox, InWire, InArriving
  <2>2. Coming(c, p)' <=> Coming(c, p)
    BY <1>1 DEF Coming, Snapshot
  <2>3. CASE p = claim
    <3>1. InOwed(p)' # {} /\ Unsent(p)'
      BY <1>1, <2>3 DEF InOwed, Unsent
    <3>2. NewsIsTrue(c, p)'
      BY <3>1 DEF NewsIsTrue
    <3>3. RestIsTrue(c, p)'
      BY <3>1 DEF RestIsTrue
    <3>4. SnapshotIsCorrected(c, p)'
      BY <3>1 DEF SnapshotIsCorrected
    <3> QED BY <3>2, <3>3, <3>4 DEF AllIsTrue
  <2>4. CASE p # claim
    <3>1. InOwed(p) = {} /\ InOwed(p)' = {}
      BY <1>1, <2>4 DEF InOwed
    <3>2. Unsent(p)' <=> Unsent(p)
      BY <2>1, <3>1 DEF Unsent
    <3>3. SnapshotIsCorrected(c, p)'
      BY <1>1, <1>2, <2>1, <2>4, <3>2 DEF AllIsTrue, SnapshotIsCorrected, Snapshot
    <3> QED BY <1>1, <1>2, <2>1, <2>2, <2>4, <3>1, <3>2, <3>3, SameIsTrue
  <2> QED BY <2>3, <2>4
<1>3. ViewerSettled(c)' <=> ViewerSettled(c)
  BY <1>1 DEF ViewerSettled
<1> QED BY <1>1, <1>2, <1>3, DeliversAfter

\* The broadcast of a change takes its place.
LEMMA BroadcastDelivers ==
  ASSUME TypeOK, OwesTruth, NEW c \in Conns, Delivers(c), Broadcast
  PROVE  Delivers(c)'
<1>1. PICK m \in owed : owed' = {} /\ outbox' = IF nodeRegistries THEN Append(outbox, m) ELSE outbox
  BY DEF Broadcast
<1>2. UNCHANGED <<claims, nodeRegistries, connection, snapshot, view, arriving, handler, wire, races, seen, held>>
  BY DEF Broadcast, viewer, history
<1>3. outbox \in Seq(Broadcasts) /\ m \in Broadcasts /\ outbox' = Append(outbox, m)
  BY <1>1 DEF TypeOK, Delivers
<1>4. owed = {m} /\ (m.type = "RegisterName" <=> m.claim \in claims)
  BY DEF OwesTruth
<1>5. held <= Len(outbox) /\ held \in Nat /\ Len(outbox) \in Nat
  BY Numbers
<1>6. ASSUME NEW p \in Claims, AllIsTrue(c, p) PROVE AllIsTrue(c, p)'
  <2>1. InOwed(p)' = {} /\ InWire(c, p)' = InWire(c, p) /\ InArriving(c, p)' = InArriving(c, p)
    BY <1>1, <1>2 DEF InOwed, InWire, InArriving
  <2>2. Coming(c, p)' <=> Coming(c, p)
    BY <1>2 DEF Coming, Snapshot
  <2>3. InOutbox(p) \in SUBSET (1..Len(outbox))
    BY <1>3, AppendIs DEF InOutbox
  <2>4. CASE p = m.claim
    <3>1. Len(outbox) + 1 \in InOutbox(p)' /\ InOutbox(p)' \in SUBSET (1..(Len(outbox) + 1))
      BY <1>2, <1>3, <1>5, <2>4, AppendIs DEF InOutbox
    <3>2. Unsent(p)'
      BY <3>1 DEF Unsent
    <3>3. LastSays(outbox', InOutbox(p)', p \in claims)
      BY <1>3, <1>4, <2>4, <3>1, LastOfAppend
    <3>4. NewsIsTrue(c, p)'
      BY <1>2, <3>2, <3>3 DEF NewsIsTrue
    <3>5. RestIsTrue(c, p)'
      BY <3>2 DEF RestIsTrue
    <3>6. SnapshotIsCorrected(c, p)'
      BY <3>2 DEF SnapshotIsCorrected
    <3> QED BY <3>4, <3>5, <3>6 DEF AllIsTrue
  <2>5. CASE p # m.claim
    <3>1. InOwed(p) = {}
      BY <1>4, <2>5 DEF InOwed
    <3>2. InOutbox(p)' = InOutbox(p)
      <4>1. ASSUME NEW i \in 1..(Len(outbox) + 1)
            PROVE  outbox'[i].claim = p <=> i \in 1..Len(outbox) /\ outbox[i].claim = p
        BY <1>3, <1>5, <2>5, AppendIs
      <4>2. DOMAIN outbox' = 1..(Len(outbox) + 1) /\ DOMAIN outbox = 1..Len(outbox)
        BY <1>3, AppendIs
      <4> QED BY <1>2, <1>5, <4>1, <4>2 DEF InOutbox
    <3>3. Unsent(p)' <=> Unsent(p)
      BY <2>1, <3>1, <3>2 DEF Unsent
    <3>4. LastSays(outbox, InOutbox(p), p \in claims) => LastSays(outbox', InOutbox(p)', p \in claims)
      BY <1>3, <2>3, <3>2, LastOfSame
    <3>5. SnapshotIsCorrected(c, p)'
      BY <1>2, <1>6, <2>1, <3>3 DEF AllIsTrue, SnapshotIsCorrected, Snapshot
    <3> QED BY <1>2, <1>6, <2>1, <2>2, <3>1, <3>3, <3>4, <3>5, SameIsTrue
  <2> QED BY <2>4, <2>5
<1>7. ViewerSettled(c)' <=> ViewerSettled(c)
  BY <1>2 DEF ViewerSettled
<1> QED BY <1>2, <1>6, <1>7, DeliversAfter

\* On a connection just registered nothing is under way, neither old broadcasts nor new.
LEMMA AddNodeRegistryDelivers ==
  ASSUME SyncInv, NEW c \in Conns, AddNodeRegistry(c), OwnerSettled(c)', races' \subseteq {"overtaken"}
  PROVE  Delivers(c)'
<1> USE DEF SyncInv
<1>0. dialed \in Nat /\ Conns \subseteq Nat
  BY Numbers, ConnsAre
<1>1. UNCHANGED <<claims, losses, owed, outbox, connection, snapshot, view, arriving, dialed, broken, wire, races, seen, held>>
  BY DEF AddNodeRegistry, viewer, net, history
<1>2. /\ handler.owner[c] = "handshake" /\ handler'.owner[c] = "known"
      /\ \A d \in Conns : d # c => handler'.owner[d] = handler.owner[d]
  BY AdvanceIs, SidesAre DEF AddNodeRegistry, Phases
<1>3. wire[c] = <<>> /\ seen # c /\ \A i \in DOMAIN arriving : arriving[i].conn # c
  BY <1>2 DEF InOrder
<1>4. ~nodeRegistries
  <2>1. SUFFICES ASSUME NEW d \in Conns, d \in losses \/ handler.owner[d] \notin {"handshake", "over"}
                 PROVE  FALSE
    BY DEF OwesTruth
  <2>2. c = dialed /\ (d < c => handler.owner[d] \in {"handshake", "over"} /\ d \notin losses)
    BY <1>0, <1>1, <1>2 DEF OwnerSettled
  <2>3. CASE d < c
    BY <2>1, <2>2, <2>3
  <2>4. CASE ~(d < c)
    <3>1. handler.owner[d] = "handshake"
      BY <1>0, <1>2, <2>2, <2>4, SidesAre DEF ConnectionLives
    <3> QED BY <2>1, <3>1 DEF InOrder
  <2> QED BY <2>3, <2>4
<1>5. held = Len(outbox) /\ DOMAIN outbox = 1..Len(outbox) /\ Len(outbox) \in Nat
  BY <1>4, Numbers, AppendIs DEF OwesTruth, TypeOK
<1>6. ASSUME NEW p \in Claims PROVE AllIsTrue(c, p)'
  <2>1. InOutbox(p)' = {} /\ InWire(c, p)' = {} /\ InArriving(c, p)' = {}
    BY <1>1, <1>3, <1>5 DEF InOutbox, InWire, InArriving
  <2>2. ~Coming(c, p)'
    BY <1>1, <1>2, <1>3 DEF Coming
  <2>3. NewsIsTrue(c, p)'
    BY <2>1 DEF NewsIsTrue, LastSays
  <2>4. RestIsTrue(c, p)'
    BY <1>2, <2>2 DEF RestIsTrue
  <2>5. SnapshotIsCorrected(c, p)'
    BY <1>1, <1>2, <1>3 DEF SnapshotIsCorrected
  <2> QED BY <2>3, <2>4, <2>5 DEF AllIsTrue
<1>7. nodeRegistries'
  BY DEF AddNodeRegistry
<1> QED BY <1>2, <1>6, <1>7 DEF Delivers

LEMMA SetConnectionDelivers ==
  ASSUME TypeOK, NEW c \in Conns, Delivers(c), SetConnection(c)
  PROVE  Delivers(c)'
<1>1. /\ UNCHANGED <<claims, nodeRegistries, owed, outbox, snapshot, view, arriving, wire, races, seen, held>>
      /\ connection' = c
  BY DEF SetConnection, maps, viewer, history
<1>2. handler.owner[c] = "known" /\ handler'.owner[c] = "set" /\ \A d \in Conns : handler'.viewer[d] = handler.viewer[d]
  BY AdvanceIs, SidesAre DEF SetConnection, Phases
<1>3. ASSUME NEW p \in Claims, AllIsTrue(c, p) PROVE AllIsTrue(c, p)'
  <2>1. InArriving(c, p)' = InArriving(c, p)
    BY <1>1 DEF InArriving
  <2> QED BY <1>1, <1>2, <1>3, <2>1, FrameIsTrue
<1>4. ViewerSettled(c)' <=> ViewerSettled(c)
  BY <1>1, <1>2 DEF ViewerSettled
<1> QED BY <1>1, <1>3, <1>4 DEF Delivers

\* A snapshot has every claim, and no other.
LEMMA TakeSnapshotDelivers ==
  ASSUME TypeOK, NEW c \in Conns, Delivers(c), TakeSnapshot(c)
  PROVE  Delivers(c)'
<1>1. UNCHANGED <<claims, nodeRegistries, owed, outbox, connection, view, arriving, wire, races, seen, held>>
  BY DEF TakeSnapshot, maps, viewer, history
<1>2. /\ handler.owner[c] = "set" /\ handler'.owner[c] = "snapshot"
      /\ \A d \in Conns : handler'.viewer[d] = handler.viewer[d]
  BY AdvanceIs, SidesAre DEF TakeSnapshot, Phases
<1>3. snapshot'[c] = claims
  BY DEF TakeSnapshot, TypeOK
<1>4. ASSUME NEW p \in Claims, AllIsTrue(c, p) PROVE AllIsTrue(c, p)'
  <2>1. /\ InOwed(p)' = InOwed(p) /\ InOutbox(p)' = InOutbox(p) /\ InWire(c, p)' = InWire(c, p)
        /\ InArriving(c, p)' = InArriving(c, p)
    BY <1>1 DEF InOwed, InOutbox, InWire, InArriving
  <2>2. Unsent(p)' <=> Unsent(p)
    BY <2>1 DEF Unsent
  <2>3. Coming(c, p)' <=> (p \in claims \/ Coming(c, p))
    BY <1>1, <1>2, <1>3 DEF Coming, Snapshot
  <2>4. NewsIsTrue(c, p)'
    BY <1>1, <1>4, <2>1, <2>2 DEF AllIsTrue, NewsIsTrue
  <2>5. RestIsTrue(c, p)'
    BY <1>1, <1>4, <2>1, <2>2, <2>3 DEF AllIsTrue, RestIsTrue
  <2>6. SnapshotIsCorrected(c, p)'
    BY <1>1, <1>3, <1>4, <2>1, <2>2 DEF AllIsTrue, SnapshotIsCorrected, Snapshot
  <2> QED BY <2>4, <2>5, <2>6 DEF AllIsTrue
<1>5. ViewerSettled(c)' <=> ViewerSettled(c)
  BY <1>1, <1>2 DEF ViewerSettled
<1> QED BY <1>1, <1>2, <1>4, <1>5, DeliversAfter

\* A snapshot goes behind every broadcast sent before.
LEMMA SendSnapshotDelivers ==
  ASSUME TypeOK, NEW c \in Conns, Delivers(c), c \notin broken, SendSnapshot(c)
  PROVE  Delivers(c)'
<1> DEFINE m == [type |-> "AllNodeClaims", claims |-> snapshot[c], conn |-> c]
           n == Len(wire[c])
<1>1. UNCHANGED <<claims, nodeRegistries, owed, outbox, connection, view, arriving, races, seen, held>>
  BY DEF SendSnapshot, maps, viewer, history
<1>2. /\ handler.owner[c] = "snapshot" /\ handler'.owner[c] = "reading"
      /\ \A d \in Conns : handler'.viewer[d] = handler.viewer[d]
  BY AdvanceIs, SidesAre DEF SendSnapshot, Phases
<1>3. m \in Arrived \cup Snapshots /\ m.type = "AllNodeClaims" /\ m.claims = snapshot[c]
  BY DEF Snapshots, TypeOK
<1>4. wire'[c] = Append(wire[c], m) /\ wire[c] \in Seq(Arrived \cup Snapshots)
  BY <1>3, WriteIs, WireIs DEF SendSnapshot
<1> HIDE DEF m
<1>5. /\ n \in Nat /\ DOMAIN wire[c] = 1..n /\ DOMAIN wire'[c] = 1..(n + 1)
      /\ \A i \in 1..n : wire'[c][i] = wire[c][i]
      /\ wire'[c][n + 1] = m
  BY <1>3, <1>4, AppendIs
<1> HIDE DEF n
<1>6. ASSUME NEW p \in Claims, AllIsTrue(c, p) PROVE AllIsTrue(c, p)'
  <2>1. InOwed(p)' = InOwed(p) /\ InOutbox(p)' = InOutbox(p) /\ InArriving(c, p)' = InArriving(c, p)
    BY <1>1 DEF InOwed, InOutbox, InArriving
  <2>2. Unsent(p)' <=> Unsent(p)
    BY <2>1 DEF Unsent
  <2>3. InWire(c, p)' = InWire(c, p)
    BY <1>3, <1>5 DEF InWire
  <2>4. InWire(c, p) \in SUBSET (1..n)
    BY <1>5 DEF InWire
  <2>5. LastSays(wire[c], InWire(c, p), p \in claims) => LastSays(wire'[c], InWire(c, p)', p \in claims)
    BY <1>5, <2>3, <2>4 DEF LastSays
  <2>6. Coming(c, p)' <=> Coming(c, p)
    <3>1. (\E i \in DOMAIN wire'[c] : wire'[c][i].type = "AllNodeClaims" /\ p \in wire'[c][i].claims)
           <=> \/ p \in snapshot[c]
               \/ \E i \in DOMAIN wire[c] : wire[c][i].type = "AllNodeClaims" /\ p \in wire[c][i].claims
      BY <1>3, <1>5
    <3> QED BY <1>1, <1>2, <3>1 DEF Coming, Snapshot
  <2>7. SnapshotIsCorrected(c, p)'
    <3> SUFFICES ASSUME races = {}, p \notin claims, NEW i \in 1..(n + 1),
                        wire'[c][i].type = "AllNodeClaims", p \in wire'[c][i].claims
                 PROVE  Unsent(p) \/ \E j \in InWire(c, p) : j > i
      BY <1>1, <1>2, <1>5, <2>2, <2>3 DEF SnapshotIsCorrected, Snapshot
    <3>1. SnapshotIsCorrected(c, p)
      BY <1>6 DEF AllIsTrue
    <3>2. CASE i = n + 1
      BY <1>2, <1>3, <1>5, <3>1, <3>2 DEF SnapshotIsCorrected
    <3>3. CASE i \in 1..n
      BY <1>5, <3>1, <3>3 DEF SnapshotIsCorrected, Snapshot
    <3> QED BY <1>5, <3>2, <3>3
  <2> QED BY <1>1, <1>2, <1>6, <2>1, <2>2, <2>3, <2>5, <2>6, <2>7, SameIsTrue
<1>7. ViewerSettled(c)' <=> ViewerSettled(c)
  BY <1>1, <1>2 DEF ViewerSettled
<1> QED BY <1>1, <1>2, <1>6, <1>7, DeliversAfter

\* remoteMailboxes sends its oldest broadcast.
LEMMA OutboxShifts ==
  ASSUME TypeOK, Transmit, NEW p \in Claims
  PROVE  /\ InOutbox(p)' = {i \in 1..(Len(outbox) - 1) : i + 1 \in InOutbox(p)}
         /\ InOutbox(p) \in SUBSET (1..Len(outbox))
         /\ LastSays(outbox, InOutbox(p), p \in claims) => LastSays(outbox', InOutbox(p)', p \in claims)
         /\ InOutbox(p)' = {} => InOutbox(p) \subseteq {1}
         /\ InOutbox(p) = {} => InOutbox(p)' = {}
         /\ 1 \notin InOutbox(p) => (InOutbox(p)' = {} <=> InOutbox(p) = {})
<1>1. outbox \in Seq(Broadcasts) /\ outbox # <<>> /\ outbox' = Tail(outbox)
  BY DEF TypeOK, Transmit
<1>2. /\ Len(outbox) \in Nat \ {0} /\ DOMAIN outbox = 1..Len(outbox) /\ DOMAIN outbox' = 1..(Len(outbox) - 1)
      /\ \A i \in 1..(Len(outbox) - 1) : outbox'[i] = outbox[i + 1]
  BY <1>1, TailIs
<1>3. held \in Nat /\ held' = IF held > 0 THEN held - 1 ELSE 0
  BY TransmitIs, Numbers
<1>4. InOutbox(p)' = {i \in 1..(Len(outbox) - 1) : i + 1 \in InOutbox(p)}
  <2>1. ASSUME NEW i \in 1..(Len(outbox) - 1) PROVE i > held' <=> i + 1 > held
    BY <1>3
  <2>2. ASSUME NEW i \in 1..(Len(outbox) - 1) PROVE i + 1 \in 1..Len(outbox)
    BY <1>2
  <2> QED BY <1>2, <2>1, <2>2 DEF InOutbox
<1>5. InOutbox(p) \in SUBSET (1..Len(outbox))
  BY <1>2 DEF InOutbox
<1>6. LastSays(outbox, InOutbox(p), p \in claims) => LastSays(outbox', InOutbox(p)', p \in claims)
  BY <1>1, <1>4, <1>5, LastOfTail
<1>7. ASSUME NEW i \in InOutbox(p), i # 1 PROVE i - 1 \in InOutbox(p)'
  <2>1. i - 1 \in 1..(Len(outbox) - 1) /\ (i - 1) + 1 = i
    BY <1>2, <1>5, <1>7
  <2> QED BY <1>4, <2>1
<1> QED BY <1>4, <1>5, <1>6, <1>7

LEMMA TransmitDelivers ==
  ASSUME SyncInv, NEW c \in Conns, OwnerSettled(c), Delivers(c), Transmit,
         races \subseteq races', races' \subseteq {"overtaken"}
  PROVE  Delivers(c)'
<1> USE DEF SyncInv
<1>0. held \in Nat /\ Len(outbox) \in Nat
  BY Numbers
<1>1. UNCHANGED <<claims, nodeRegistries, owed, connection, snapshot, view, arriving, handler, dialed, broken, seen>>
  BY DEF Transmit, maps, viewer, net
<1>2. ViewerSettled(c)' <=> ViewerSettled(c)
  BY <1>1 DEF ViewerSettled
<1>3. CASE connection = None
  <2>1. handler.owner[c] = "known"
    BY <1>3, ConnsAre DEF Delivers
  <2>2. wire' = wire /\ races' = races
    BY <1>3, TransmitIs
  <2>3. wire[c] = <<>> /\ seen # c /\ \A i \in DOMAIN arriving : arriving[i].conn # c
    BY <2>1 DEF InOrder
  <2>4. ASSUME NEW p \in Claims, AllIsTrue(c, p) PROVE AllIsTrue(c, p)'
    <3>1. InOwed(p)' = InOwed(p) /\ InWire(c, p)' = {} /\ InArriving(c, p)' = {}
      BY <1>1, <2>2, <2>3 DEF InOwed, InWire, InArriving
    <3>2. ~Coming(c, p)'
      BY <1>1, <2>1, <2>2, <2>3 DEF Coming
    <3>3. LastSays(outbox, InOutbox(p), p \in claims) => LastSays(outbox', InOutbox(p)', p \in claims)
      BY OutboxShifts
    <3>4. NewsIsTrue(c, p)'
      BY <1>1, <2>4, <3>1, <3>3 DEF AllIsTrue, NewsIsTrue, LastSays
    <3>5. RestIsTrue(c, p)'
      BY <1>1, <2>1, <3>2 DEF RestIsTrue
    <3>6. SnapshotIsCorrected(c, p)'
      BY <1>1, <2>1, <2>2, <2>3 DEF SnapshotIsCorrected
    <3> QED BY <3>4, <3>5, <3>6 DEF AllIsTrue
  <2> QED BY <1>1, <1>2, <2>4, DeliversAfter
<1>4. CASE connection # None
  <2> DEFINE b == Head(outbox)
             m == [type |-> b.type, claim |-> b.claim, conn |-> connection]
             n == Len(wire[c])
  <2>1. connection = c
    <3>1. connection \in Conns /\ handler.owner[connection] \in {"set", "snapshot", "reading"}
      BY <1>4 DEF ConnectionLives, TypeOK
    <3>2. handler.owner[c] # "known" => connection = c
      BY DEF Delivers
    <3>3. ~(connection < c)
      BY <3>1 DEF OwnerSettled
    <3>4. ~(connection > c)
      BY <3>1, SidesAre DEF OwnerSettled, ConnectionLives
    <3> QED BY <3>1, <3>3, <3>4, ConnsAre
  <2>2. held = 0 /\ held' = 0
    BY <1>0, <1>4, TransmitIs
  <2>3. b \in Broadcasts /\ b = outbox[1] /\ outbox \in Seq(Broadcasts) /\ outbox # <<>>
    BY TailIs DEF TypeOK, Transmit
  <2>4. /\ m \in Arrived /\ m.type = b.type /\ m.claim = b.claim /\ m.type \in {"RegisterName", "UnregisterName"}
    BY <1>4, <2>3, TransmitIs DEF Arrived
  <2>5. wire'[c] = Append(wire[c], m) /\ wire[c] \in Seq(Arrived \cup Snapshots)
    <3>1. c \notin broken
      BY DEF OwnerSettled
    <3>2. Write(c, m)
      BY <1>4, <2>1, TransmitIs
    <3> QED BY <2>4, <3>1, <3>2, WriteIs, WireIs
  <2>6. b.type = "UnregisterName" /\ handler.owner[c] = "snapshot" /\ b.claim \in snapshot[c] => "overtaken" \in races'
    BY <1>4, <2>1, TransmitIs DEF Overtakes
  <2> HIDE DEF m, b
  <2>7. /\ n \in Nat /\ DOMAIN wire[c] = 1..n /\ DOMAIN wire'[c] = 1..(n + 1)
        /\ \A i \in 1..n : wire'[c][i] = wire[c][i]
        /\ wire'[c][n + 1] = m
    BY <2>4, <2>5, AppendIs
  <2>8. DOMAIN outbox = 1..Len(outbox) /\ Len(outbox) \in Nat \ {0}
    BY <2>3, TailIs
  <2> HIDE DEF n
  <2>9. ASSUME NEW p \in Claims, AllIsTrue(c, p) PROVE AllIsTrue(c, p)'
    <3>1. InOwed(p)' = InOwed(p) /\ InArriving(c, p)' = InArriving(c, p)
      BY <1>1 DEF InOwed, InArriving
    <3>2. LastSays(outbox, InOutbox(p), p \in claims) => LastSays(outbox', InOutbox(p)', p \in claims)
      BY OutboxShifts
    <3>3. InWire(c, p) \in SUBSET (1..n)
      BY <2>7 DEF InWire
    <3>4. Coming(c, p)' <=> Coming(c, p)
      <4>1. (\E i \in DOMAIN wire'[c] : wire'[c][i].type = "AllNodeClaims" /\ p \in wire'[c][i].claims)
             <=> \E i \in DOMAIN wire[c] : wire[c][i].type = "AllNodeClaims" /\ p \in wire[c][i].claims
        <5>1. \A i \in DOMAIN wire[c] : i \in DOMAIN wire'[c] /\ wire'[c][i] = wire[c][i]
          BY <2>7
        <5>2. \A i \in DOMAIN wire'[c] : wire'[c][i].type = "AllNodeClaims" => i \in DOMAIN wire[c]
          <6>1. m.type # "AllNodeClaims"
            BY <2>4
          <6>2. \A i \in 1..(n + 1) : i # n + 1 => i \in 1..n
            BY <2>7
          <6> QED BY <2>7, <6>1, <6>2
        <5> QED BY <5>1, <5>2
      <4> QED BY <1>1, <4>1 DEF Coming, Snapshot
    <3>5. 1 \in InOutbox(p) <=> b.claim = p
      BY <2>2, <2>3, <2>8 DEF InOutbox
    <3>6. NewsIsTrue(c, p) /\ RestIsTrue(c, p) /\ SnapshotIsCorrected(c, p)
      BY <2>9 DEF AllIsTrue
    <3>7. races' = {} => races = {}
      OBVIOUS
    <3>8. CASE b.claim # p
      <4>1. Unsent(p)' <=> Unsent(p)
        BY <3>1, <3>5, <3>8, OutboxShifts DEF Unsent
      <4>2. InWire(c, p)' = InWire(c, p)
        BY <2>4, <2>7, <3>8 DEF InWire
      <4>3. LastSays(wire[c], InWire(c, p), p \in claims) => LastSays(wire'[c], InWire(c, p)', p \in claims)
        BY <2>7, <3>3, <4>2 DEF LastSays
      <4>4. SnapshotIsCorrected(c, p)'
        <5> SUFFICES ASSUME races' = {}, p \notin claims
                     PROVE  /\ handler.owner[c] = "snapshot" /\ p \in snapshot[c] => Unsent(p)
                            /\ \A i \in 1..(n + 1) : wire'[c][i].type = "AllNodeClaims" /\ p \in wire'[c][i].claims =>
                                 Unsent(p) \/ \E j \in InWire(c, p) : j > i
          BY <1>1, <2>7, <4>1, <4>2 DEF SnapshotIsCorrected, Snapshot
        <5>1. \A i \in 1..(n + 1) : wire'[c][i].type = "AllNodeClaims" => i \in 1..n /\ wire'[c][i] = wire[c][i]
          <6>1. m.type # "AllNodeClaims" /\ wire'[c][n + 1].type = m.type
            BY <2>4, <2>7
          <6>2. \A i \in 1..(n + 1) : i = n + 1 \/ i \in 1..n
            BY <2>7
          <6> QED BY <2>7, <6>1, <6>2
        <5> QED BY <2>7, <3>6, <3>7, <5>1 DEF SnapshotIsCorrected, Snapshot
      <4> QED BY <1>1, <2>9, <3>1, <3>2, <3>4, <4>1, <4>2, <4>3, <4>4, SameIsTrue
    <3>9. CASE b.claim = p
      <4>1. n + 1 \in InWire(c, p)' /\ InWire(c, p)' \in SUBSET (1..(n + 1))
        BY <2>4, <2>7, <3>9 DEF InWire
      <4>2. ~Unsent(p)' => InOwed(p) = {} /\ InOutbox(p) = {1}
        BY <3>1, <3>5, <3>9, OutboxShifts DEF Unsent
      <4>3. ~Unsent(p)' => (b.type = "RegisterName" <=> p \in claims)
        <5>1. ~Unsent(p)' => LastSays(outbox, {1}, p \in claims)
          BY <3>6, <4>2 DEF NewsIsTrue
        <5> QED BY <2>3, <5>1 DEF LastSays
      <4>4. ~Unsent(p)' => LastSays(wire'[c], InWire(c, p)', p \in claims)
        <5>1. \A i \in InWire(c, p)' : (\A j \in InWire(c, p)' : j <= i) => i = n + 1
          BY <2>7, <4>1
        <5> QED BY <2>4, <2>7, <4>3, <5>1 DEF LastSays
      <4>5. NewsIsTrue(c, p)'
        BY <1>1, <3>1, <3>2, <3>6, <4>1, <4>4 DEF NewsIsTrue
      <4>6. RestIsTrue(c, p)'
        BY <4>1 DEF RestIsTrue
      <4>7. SnapshotIsCorrected(c, p)'
        <5> SUFFICES ASSUME races' = {}, p \notin claims, ~Unsent(p)'
                     PROVE  /\ ~(handler.owner[c] = "snapshot" /\ p \in snapshot[c])
                            /\ \A i \in 1..(n + 1) : wire'[c][i].type = "AllNodeClaims" => n + 1 > i
          BY <1>1, <2>7, <4>1 DEF SnapshotIsCorrected, Snapshot
        <5>1. b.type = "UnregisterName"
          BY <2>4, <4>3
        <5>2. \A i \in 1..(n + 1) : wire'[c][i].type = "AllNodeClaims" => i # n + 1
          BY <2>4, <2>7
        <5> QED BY <2>6, <2>7, <3>9, <5>1, <5>2
      <4> QED BY <4>5, <4>6, <4>7 DEF AllIsTrue
    <3> QED BY <3>8, <3>9
  <2> QED BY <1>1, <1>2, <2>9, DeliversAfter
<1> QED BY <1>3, <1>4

\* The viewer starts to read: of the newest connection, or of one it hears nothing by.
LEMMA StartReadingDelivers ==
  ASSUME TypeOK, NEW c \in Conns, Delivers(c), NEW d \in Conns, StartReading(d)
  PROVE  Delivers(c)'
<1>1. UNCHANGED <<claims, nodeRegistries, owed, outbox, connection, snapshot, view, arriving, wire, races, seen, held>>
  BY DEF StartReading, owner, maps, viewer, history
<1>2. /\ handler.viewer[d] = "handshake" /\ \A e \in Conns : e # d => handler'.viewer[e] = handler.viewer[e]
      /\ handler'.owner[c] = handler.owner[c]
  BY AdvanceIs, SidesAre DEF StartReading, Phases
<1>3. ViewerSettled(c)' => ViewerSettled(c)
  BY <1>1, <1>2 DEF ViewerSettled
<1>4. ASSUME NEW p \in Claims, AllIsTrue(c, p) PROVE AllIsTrue(c, p)'
  <2>1. InArriving(c, p)' = InArriving(c, p)
    BY <1>1 DEF InArriving
  <2> QED BY <1>1, <1>2, <1>4, <2>1, FrameIsTrue
<1> QED BY <1>1, <1>2, <1>3, <1>4, DeliversAfter

\* When the first message of a connection is handled, and the viewer is done with older
\* ones, it knows nothing.
LEMMA FirstHeard ==
  ASSUME SyncInv, NEW c \in Conns, OwnerSettled(c), races \subseteq {"overtaken"}, seen # c,
         \A d \in Conns : d < c => handler.viewer[d] \in {"handshake", "over"}
  PROVE  view = {}
<1> USE DEF SyncInv
<1>1. SUFFICES ASSUME NEW d \in Conns, d <= seen, handler.viewer[d] = "reading" PROVE FALSE
  BY DEF ViewHasReader
<1>2. ~(d < c)
  BY <1>1
<1>3. c = dialed /\ d \in Nat /\ c \in Nat /\ seen \in Nat
  BY Numbers, ConnsAre DEF OwnerSettled
<1>4. ~(d > c)
  BY <1>1, <1>3, SidesAre DEF ConnectionLives
<1>5. seen > c
  BY <1>1, <1>2, <1>3, <1>4
<1>6. seen \in Conns
  BY <1>3, <1>5 DEF TypeOK, Conns
<1>7. handler.owner[seen] = "handshake"
  BY <1>3, <1>5, <1>6, SidesAre DEF ConnectionLives
<1> QED BY <1>6, <1>7 DEF InOrder

\* The handler that reads is that of the newest connection or of an older one.
LEMMA ReaderIs ==
  ASSUME SyncInv, NEW c \in Conns, OwnerSettled(c), NEW d \in Conns, handler.viewer[d] # "handshake"
  PROVE  d <= c
<1>1. c = dialed /\ d \in Nat /\ c \in Nat
  BY Numbers, ConnsAre DEF OwnerSettled, SyncInv
<1>2. ~(d > c)
  BY <1>1, SidesAre DEF SyncInv, ConnectionLives
<1> QED BY <1>1, <1>2

\* After hearing by the newest connection, the viewer has done with the others.
LEMMA HearsBy ==
  ASSUME SyncInv, NEW c \in Conns, OwnerSettled(c), NEW d \in Conns, handler.viewer[d] = "reading",
         handler' = handler, Hears(d), ViewerSettled(c)', races \subseteq {"overtaken"}
  PROVE  /\ ViewerSettled(c)
         /\ d # c => seen' # c /\ seen # c
         /\ d = c => seen' = c /\ (seen # c => view = {})
<1>1. d <= c
  BY ReaderIs
<1>2. c \in Nat /\ d \in Nat /\ seen \in Nat /\ c = dialed
  BY Numbers, ConnsAre DEF SyncInv, OwnerSettled
<1>3. seen <= c
  <2>1. SUFFICES ASSUME seen > c PROVE FALSE
    BY <1>2
  <2>2. seen \in Conns
    BY <1>2, <2>1 DEF SyncInv, TypeOK, Conns
  <2>3. handler.owner[seen] = "handshake"
    BY <1>2, <2>1, <2>2, SidesAre DEF SyncInv, ConnectionLives
  <2> QED BY <2>2, <2>3 DEF SyncInv, InOrder
<1>4. seen = c => seen' = c
  BY <1>1, <1>2 DEF Hears
<1>5. ViewerSettled(c)
  BY <1>4 DEF ViewerSettled
<1>6. d = c => seen' = c
  BY <1>2, <1>3 DEF Hears
<1>7. ASSUME d # c PROVE seen' # c /\ seen # c
  <2>1. d < c
    BY <1>1, <1>2, <1>7
  <2>2. seen' # c
    BY <2>1 DEF ViewerSettled
  <2> QED BY <1>4, <2>2
<1>8. d = c /\ seen # c => view = {}
  BY <1>6, FirstHeard DEF ViewerSettled
<1> QED BY <1>5, <1>6, <1>7, <1>8

\* The oldest message of the wire is read.
LEMMA WireShifts ==
  ASSUME TypeOK, NEW c \in Conns, Read(c), NEW p \in Claims, UNCHANGED claims
  PROVE  /\ Len(wire[c]) \in Nat \ {0} /\ DOMAIN wire[c] = 1..Len(wire[c])
         /\ DOMAIN wire'[c] = 1..(Len(wire[c]) - 1)
         /\ \A i \in 1..(Len(wire[c]) - 1) : wire'[c][i] = wire[c][i + 1]
         /\ InWire(c, p)' = {i \in 1..(Len(wire[c]) - 1) : i + 1 \in InWire(c, p)}
         /\ LastSays(wire[c], InWire(c, p), p \in claims) => LastSays(wire'[c], InWire(c, p)', p \in claims)
         /\ InWire(c, p)' = {} => InWire(c, p) \subseteq {1}
         /\ InWire(c, p) = {} => InWire(c, p)' = {}
         /\ 1 \notin InWire(c, p) => (InWire(c, p)' = {} <=> InWire(c, p) = {})
<1> DEFINE n == Len(wire[c])
<1>1. wire[c] \in Seq(Arrived \cup Snapshots) /\ wire[c] # <<>> /\ wire'[c] = Tail(wire[c])
  BY ReadIs, WireIs
<1>2. /\ n \in Nat \ {0} /\ DOMAIN wire[c] = 1..n /\ DOMAIN wire'[c] = 1..(n - 1)
      /\ \A i \in 1..(n - 1) : wire'[c][i] = wire[c][i + 1]
  BY <1>1, TailIs
<1> HIDE DEF n
<1>3. InWire(c, p)' = {i \in 1..(n - 1) : i + 1 \in InWire(c, p)}
  <2>1. ASSUME NEW i \in 1..(n - 1) PROVE i + 1 \in 1..n
    BY <1>2
  <2> QED BY <1>2, <2>1 DEF InWire
<1>4. InWire(c, p) \in SUBSET (1..n)
  BY <1>2 DEF InWire
<1>5. LastSays(wire[c], InWire(c, p), p \in claims) => LastSays(wire'[c], InWire(c, p)', p \in claims)
  BY <1>1, <1>3, <1>4, LastOfTail DEF n
<1>6. ASSUME NEW i \in InWire(c, p), i # 1 PROVE i - 1 \in InWire(c, p)'
  <2>1. i - 1 \in 1..(n - 1) /\ (i - 1) + 1 = i
    BY <1>2, <1>4, <1>6
  <2> QED BY <1>3, <2>1
<1> QED BY <1>2, <1>3, <1>4, <1>5, <1>6 DEF n

\* Snapshots left on the wire are still corrected.
LEMMA CorrectionsShift ==
  ASSUME TypeOK, NEW c \in Conns, Read(c), NEW p \in Claims, UNCHANGED <<claims, owed, outbox, held, snapshot, handler, races>>,
         SnapshotIsCorrected(c, p)
  PROVE  SnapshotIsCorrected(c, p)'
<1> DEFINE n == Len(wire[c])
<1>1. /\ n \in Nat \ {0} /\ DOMAIN wire[c] = 1..n /\ DOMAIN wire'[c] = 1..(n - 1)
      /\ \A i \in 1..(n - 1) : wire'[c][i] = wire[c][i + 1]
      /\ InWire(c, p)' = {i \in 1..(n - 1) : i + 1 \in InWire(c, p)}
  BY WireShifts
<1>2. InWire(c, p) \in SUBSET (1..n)
  BY <1>1 DEF InWire
<1> HIDE DEF n
<1>3. Unsent(p)' <=> Unsent(p)
  BY DEF Unsent, InOwed, InOutbox
<1>4. SUFFICES ASSUME races = {}, p \notin claims, NEW i \in 1..(n - 1),
                      wire'[c][i].type = "AllNodeClaims", p \in wire'[c][i].claims
               PROVE  Unsent(p) \/ \E j \in InWire(c, p)' : j > i
  BY <1>1, <1>3 DEF SnapshotIsCorrected, Snapshot
<1>5. i + 1 \in 1..n /\ wire'[c][i] = wire[c][i + 1]
  BY <1>1
<1>6. Unsent(p) \/ \E j \in InWire(c, p) : j > i + 1
  BY <1>1, <1>4, <1>5 DEF SnapshotIsCorrected, Snapshot
<1>7. ASSUME NEW j \in InWire(c, p), j > i + 1 PROVE j - 1 \in InWire(c, p)' /\ j - 1 > i
  <2>1. j - 1 \in 1..(n - 1) /\ (j - 1) + 1 = j /\ j - 1 > i
    BY <1>1, <1>2, <1>7
  <2> QED BY <1>1, <2>1
<1> QED BY <1>6, <1>7

\* A snapshot becomes part of the view.
LEMMA ReadAllNodeClaimsDelivers ==
  ASSUME SyncInv, NEW c \in Conns, OwnerSettled(c), Delivers(c), NEW d \in Conns, ReadAllNodeClaims(d),
         races \subseteq {"overtaken"}
  PROVE  Delivers(c)'
<1> USE DEF SyncInv
<1>1. /\ UNCHANGED <<claims, nodeRegistries, owed, outbox, connection, snapshot, arriving, handler, races, held>>
      /\ Read(d) /\ Hears(d) /\ view' = view \cup Head(wire[d]).claims
      /\ Head(wire[d]).type = "AllNodeClaims" /\ handler.viewer[d] = "reading"
  BY DEF ReadAllNodeClaims, Read, owner, maps
<1>2. ViewerSettled(c)' => ViewerSettled(c)
  BY <1>1, HearsBy
<1>3. ASSUME NEW p \in Claims, AllIsTrue(c, p), ViewerSettled(c)' PROVE AllIsTrue(c, p)'
  <2>0. InArriving(c, p)' = InArriving(c, p)
    BY <1>1 DEF InArriving
  <2>1. CASE d # c
    <3>1. wire'[c] = wire[c]
      BY <1>1, <2>1, ReadIs
    <3>2. seen' # c /\ seen # c
      BY <1>1, <1>3, <2>1, HearsBy
    <3> QED BY <1>1, <1>3, <2>0, <3>1, <3>2, FrameIsTrue
  <2>2. CASE d = c
    <3>1. seen' = c /\ (seen # c => view = {})
      BY <1>1, <1>3, <2>2, HearsBy
    <3>2. Read(c) /\ Head(wire[c]) = wire[c][1]
      BY <1>1, <2>2, ReadIs
    <3>3. wire[c][1].type = "AllNodeClaims" /\ view' = view \cup wire[c][1].claims
      BY <1>1, <2>2, <3>2
    <3>4. 1 \notin InWire(c, p)
      BY <3>3 DEF InWire
    <3>5. /\ InWire(c, p)' = {} <=> InWire(c, p) = {}
          /\ LastSays(wire[c], InWire(c, p), p \in claims) => LastSays(wire'[c], InWire(c, p)', p \in claims)
      BY <1>1, <3>2, <3>4, WireShifts
    <3>6. Coming(c, p)' <=> Coming(c, p)
      <4> DEFINE n == Len(wire[c])
      <4>1. /\ n \in Nat \ {0} /\ DOMAIN wire[c] = 1..n /\ DOMAIN wire'[c] = 1..(n - 1)
            /\ \A i \in 1..(n - 1) : wire'[c][i] = wire[c][i + 1]
        BY <1>1, <3>2, WireShifts
      <4> HIDE DEF n
      <4>2. (\E i \in 1..n : wire[c][i].type = "AllNodeClaims" /\ p \in wire[c][i].claims)
             <=> \/ p \in wire[c][1].claims
                 \/ \E i \in 1..(n - 1) : wire'[c][i].type = "AllNodeClaims" /\ p \in wire'[c][i].claims
        <5>1. ASSUME NEW i \in 1..n, i # 1 PROVE i - 1 \in 1..(n - 1) /\ wire'[c][i - 1] = wire[c][i]
          <6>1. i - 1 \in 1..(n - 1) /\ (i - 1) + 1 = i
            BY <4>1, <5>1
          <6> QED BY <4>1, <6>1
        <5>2. ASSUME NEW i \in 1..(n - 1) PROVE i + 1 \in 1..n /\ wire'[c][i] = wire[c][i + 1]
          BY <4>1
        <5>3. 1 \in 1..n
          BY <4>1
        <5> QED BY <3>3, <5>1, <5>2, <5>3
      <4> QED BY <1>1, <3>1, <3>3, <4>1, <4>2 DEF Coming, Snapshot
    <3>7. SnapshotIsCorrected(c, p)'
      BY <1>1, <1>3, <3>2, CorrectionsShift DEF AllIsTrue
    <3>8. InOwed(p)' = InOwed(p) /\ InOutbox(p)' = InOutbox(p) /\ (Unsent(p)' <=> Unsent(p))
      BY <1>1 DEF InOwed, InOutbox, Unsent
    <3> QED BY <1>1, <1>3, <2>0, <3>5, <3>6, <3>7, <3>8, SameIsTrue
  <2> QED BY <2>1, <2>2
<1> QED BY <1>1, <1>2, <1>3, DeliversAfter

\* A broadcast moves from the wire to the mailbox of the viewer's remoteMailboxes.
LEMMA ReadBroadcastDelivers ==
  ASSUME SyncInv, NEW c \in Conns, Delivers(c), NEW d \in Conns, ReadBroadcast(d)
  PROVE  Delivers(c)'
<1> USE DEF SyncInv
<1> DEFINE m == Head(wire[d])
           k == Len(arriving)
<1>1. /\ UNCHANGED <<claims, nodeRegistries, owed, outbox, connection, snapshot, view, handler, races, seen, held>>
      /\ Read(d) /\ arriving' = Append(arriving, m) /\ m.type # "AllNodeClaims"
  BY DEF ReadBroadcast, Read, owner, maps
<1>2. m = wire[d][1] /\ m \in Arrived /\ m.conn = d /\ m.claim \in Claims /\ 1 \in DOMAIN wire[d]
  BY <1>1, ReadIs, BroadcastsAre DEF InOrder
<1> HIDE DEF m
<1>3. /\ k \in Nat /\ DOMAIN arriving = 1..k /\ DOMAIN arriving' = 1..(k + 1)
      /\ \A i \in 1..k : arriving'[i] = arriving[i]
      /\ arriving'[k + 1] = m /\ arriving \in Seq(Arrived)
  BY <1>1, <1>2, AppendIs DEF TypeOK
<1> HIDE DEF k
<1>4. ViewerSettled(c)' <=> ViewerSettled(c)
  BY <1>1 DEF ViewerSettled
<1>5. ASSUME NEW p \in Claims, ~(d = c /\ m.claim = p)
      PROVE  /\ InArriving(c, p)' = InArriving(c, p)
             /\ LastSays(arriving, InArriving(c, p), p \in claims) => LastSays(arriving', InArriving(c, p)', p \in claims)
  <2>1. InArriving(c, p)' = InArriving(c, p)
    BY <1>2, <1>3, <1>5 DEF InArriving
  <2>2. \A i \in InArriving(c, p) : arriving'[i] = arriving[i]
    BY <1>3 DEF InArriving
  <2> QED BY <2>1, <2>2 DEF LastSays
<1>6. ASSUME NEW p \in Claims, AllIsTrue(c, p) PROVE AllIsTrue(c, p)'
  <2>1. CASE d # c
    <3>1. wire'[c] = wire[c]
      BY <1>1, <2>1, ReadIs
    <3> QED BY <1>1, <1>5, <1>6, <2>1, <3>1, FrameIsTrue
  <2>2. CASE d = c
    <3>1. SnapshotIsCorrected(c, p)'
      BY <1>1, <1>6, <2>2, CorrectionsShift DEF AllIsTrue
    <3>2. InOwed(p)' = InOwed(p) /\ InOutbox(p)' = InOutbox(p) /\ (Unsent(p)' <=> Unsent(p))
      BY <1>1 DEF InOwed, InOutbox, Unsent
    <3>3. 1 \in InWire(c, p) <=> m.claim = p
      BY <1>1, <1>2, <2>2 DEF InWire
    <3>4. Coming(c, p)' <=> Coming(c, p)
      <4> DEFINE n == Len(wire[c])
      <4>1. /\ n \in Nat \ {0} /\ DOMAIN wire[c] = 1..n /\ DOMAIN wire'[c] = 1..(n - 1)
            /\ \A i \in 1..(n - 1) : wire'[c][i] = wire[c][i + 1]
        BY <1>1, <2>2, WireShifts
      <4> HIDE DEF n
      <4>2. (\E i \in 1..n : wire[c][i].type = "AllNodeClaims" /\ p \in wire[c][i].claims)
             <=> \E i \in 1..(n - 1) : wire'[c][i].type = "AllNodeClaims" /\ p \in wire'[c][i].claims
        <5>1. ASSUME NEW i \in 1..n, i # 1 PROVE i - 1 \in 1..(n - 1) /\ wire'[c][i - 1] = wire[c][i]
          <6>1. i - 1 \in 1..(n - 1) /\ (i - 1) + 1 = i
            BY <4>1, <5>1
          <6> QED BY <4>1, <6>1
        <5>2. ASSUME NEW i \in 1..(n - 1) PROVE i + 1 \in 1..n /\ wire'[c][i] = wire[c][i + 1]
          BY <4>1
        <5>3. wire[c][1].type # "AllNodeClaims"
          BY <1>1, <1>2, <2>2
        <5> QED BY <5>1, <5>2, <5>3
      <4> QED BY <1>1, <4>1, <4>2 DEF Coming, Snapshot
    <3>5. /\ 1 \notin InWire(c, p) => (InWire(c, p)' = {} <=> InWire(c, p) = {})
          /\ InWire(c, p)' = {} => InWire(c, p) \subseteq {1}
          /\ LastSays(wire[c], InWire(c, p), p \in claims) => LastSays(wire'[c], InWire(c, p)', p \in claims)
      BY <1>1, <2>2, WireShifts
    <3>6. CASE m.claim # p
      BY <1>1, <1>5, <1>6, <3>1, <3>2, <3>3, <3>4, <3>5, <3>6, SameIsTrue
    <3>7. CASE m.claim = p
      <4>1. k + 1 \in InArriving(c, p)' /\ InArriving(c, p)' \in SUBSET (1..(k + 1))
        BY <1>2, <1>3, <2>2, <3>7 DEF InArriving
      <4>2. NewsIsTrue(c, p)
        BY <1>6 DEF AllIsTrue
      <4>3. ~Unsent(p) /\ InWire(c, p)' = {} => (m.type = "RegisterName" <=> p \in claims)
        <5>1. InWire(c, p)' = {} => InWire(c, p) = {1}
          BY <3>3, <3>5, <3>7
        <5> QED BY <1>2, <2>2, <4>2, <5>1 DEF NewsIsTrue, LastSays
      <4>4. ~Unsent(p) /\ InWire(c, p)' = {} => LastSays(arriving', InArriving(c, p)', p \in claims)
        <5>1. \A i \in InArriving(c, p)' : (\A j \in InArriving(c, p)' : j <= i) => i = k + 1
          BY <1>3, <4>1
        <5> QED BY <1>3, <4>3, <5>1 DEF LastSays
      <4>5. NewsIsTrue(c, p)'
        BY <1>1, <3>2, <3>5, <4>2, <4>4 DEF NewsIsTrue
      <4>6. RestIsTrue(c, p)'
        BY <4>1 DEF RestIsTrue
      <4> QED BY <3>1, <4>5, <4>6 DEF AllIsTrue
    <3> QED BY <3>6, <3>7
  <2> QED BY <2>1, <2>2
<1> QED BY <1>1, <1>4, <1>6, DeliversAfter

\* The viewer's remoteMailboxes passes its oldest message on.
LEMMA ArrivingShifts ==
  ASSUME TypeOK, NEW m, Forward(m), NEW c \in Conns, NEW p \in Claims
  PROVE  /\ LastSays(arriving, InArriving(c, p), p \in claims) => LastSays(arriving', InArriving(c, p)', p \in claims)
         /\ InArriving(c, p)' = {} => InArriving(c, p) \subseteq {1}
         /\ InArriving(c, p) = {} => InArriving(c, p)' = {}
         /\ 1 \in InArriving(c, p) <=> m.conn = c /\ m.claim = p
         /\ 1 \notin InArriving(c, p) => (InArriving(c, p)' = {} <=> InArriving(c, p) = {})
<1> DEFINE n == Len(arriving)
<1>1. arriving \in Seq(Arrived) /\ arriving # <<>> /\ arriving' = Tail(arriving) /\ m = arriving[1]
  BY ForwardIs DEF TypeOK
<1>2. /\ n \in Nat \ {0} /\ DOMAIN arriving = 1..n /\ DOMAIN arriving' = 1..(n - 1)
      /\ \A i \in 1..(n - 1) : arriving'[i] = arriving[i + 1]
  BY <1>1, TailIs
<1> HIDE DEF n
<1>3. InArriving(c, p)' = {i \in 1..(n - 1) : i + 1 \in InArriving(c, p)}
  <2>1. ASSUME NEW i \in 1..(n - 1) PROVE i + 1 \in 1..n
    BY <1>2
  <2> QED BY <1>2, <2>1 DEF InArriving
<1>4. InArriving(c, p) \in SUBSET (1..n)
  BY <1>2 DEF InArriving
<1>5. LastSays(arriving, InArriving(c, p), p \in claims) => LastSays(arriving', InArriving(c, p)', p \in claims)
  BY <1>1, <1>3, <1>4, LastOfTail DEF n
<1>6. ASSUME NEW i \in InArriving(c, p), i # 1 PROVE i - 1 \in InArriving(c, p)'
  <2>1. i - 1 \in 1..(n - 1) /\ (i - 1) + 1 = i
    BY <1>2, <1>4, <1>6
  <2> QED BY <1>3, <2>1
<1>7. 1 \in InArriving(c, p) <=> m.conn = c /\ m.claim = p
  BY <1>1, <1>2 DEF InArriving
<1> QED BY <1>3, <1>5, <1>6, <1>7

\* The viewer's registry handles a broadcast.
LEMMA ForwardDelivers ==
  ASSUME SyncInv, NEW c \in Conns, OwnerSettled(c), Delivers(c),
         NEW m, HandleRegisterName(m) \/ HandleUnregisterName(m),
         races \subseteq races', races' \subseteq {"overtaken"}
  PROVE  Delivers(c)'
<1> USE DEF SyncInv
<1>0. Forward(m)
  BY DEF HandleRegisterName, HandleUnregisterName
<1>1. /\ UNCHANGED <<claims, nodeRegistries, owed, outbox, connection, snapshot, wire, handler, held>>
      /\ Hears(m.conn)
      /\ view' = IF m.type = "RegisterName" THEN view \cup {m.claim} ELSE view \ {m.claim}
  BY DEF HandleRegisterName, HandleUnregisterName, Forward, owner, maps
<1>2. m.conn \in Conns /\ m.claim \in Claims /\ m \in Arrived /\ m = arriving[1] /\ 1 \in DOMAIN arriving
  BY <1>0, ForwardIs
<1>3. handler.viewer[m.conn] = "reading"
  <2>1. handler.viewer[m.conn] # "over"
    BY <1>0, ForwardIs
  <2>2. handler.viewer[m.conn] # "handshake"
    BY <1>2 DEF InOrder
  <2> QED BY <1>2, <2>1, <2>2 DEF InOrder
<1>4. ViewerSettled(c)' => /\ ViewerSettled(c)
                           /\ m.conn # c => seen' # c /\ seen # c
                           /\ m.conn = c => seen' = c /\ (seen # c => view = {})
  BY <1>1, <1>2, <1>3, HearsBy
<1>5. ASSUME NEW p \in Claims, AllIsTrue(c, p), ViewerSettled(c)' PROVE AllIsTrue(c, p)'
  <2>1. /\ LastSays(arriving, InArriving(c, p), p \in claims) => LastSays(arriving', InArriving(c, p)', p \in claims)
        /\ InArriving(c, p)' = {} => InArriving(c, p) \subseteq {1}
        /\ InArriving(c, p) = {} => InArriving(c, p)' = {}
        /\ 1 \in InArriving(c, p) <=> m.conn = c /\ m.claim = p
        /\ 1 \notin InArriving(c, p) => (InArriving(c, p)' = {} <=> InArriving(c, p) = {})
    BY <1>0, ArrivingShifts
  <2>2. CASE ~(m.conn = c /\ m.claim = p)
    <3>1. seen' = c /\ p \in view' <=> seen = c /\ p \in view
      BY <1>1, <1>4, <1>5, <2>2
    <3> QED BY <1>1, <1>5, <2>1, <2>2, <3>1, FrameIsTrue
  <2>3. CASE m.conn = c /\ m.claim = p
    <3>1. /\ InOwed(p)' = InOwed(p) /\ InOutbox(p)' = InOutbox(p) /\ InWire(c, p)' = InWire(c, p)
          /\ (Unsent(p)' <=> Unsent(p))
      BY <1>1 DEF InOwed, InOutbox, InWire, Unsent
    <3>2. NewsIsTrue(c, p) /\ RestIsTrue(c, p) /\ SnapshotIsCorrected(c, p)
      BY <1>5 DEF AllIsTrue
    <3>3. NewsIsTrue(c, p)'
      BY <1>1, <2>1, <3>1, <3>2 DEF NewsIsTrue
    <3>4. SnapshotIsCorrected(c, p)'
      BY <1>1, <3>1, <3>2 DEF SnapshotIsCorrected, Snapshot
    <3>5. RestIsTrue(c, p)'
      <4> SUFFICES ASSUME ~Unsent(p), InWire(c, p) = {}, InArriving(c, p)' = {}
                   PROVE  /\ p \in claims => Coming(c, p)'
                          /\ races' = {} /\ Coming(c, p)' => p \in claims
        BY <1>1, <3>1 DEF RestIsTrue
      <4>1. InArriving(c, p) = {1}
        BY <2>1, <2>3
      <4>2. m.type = "RegisterName" <=> p \in claims
        BY <1>2, <3>2, <4>1 DEF NewsIsTrue, LastSays
      <4>3. CASE p \in claims
        BY <1>1, <1>4, <1>5, <2>3, <4>2, <4>3 DEF Coming
      <4>4. CASE p \notin claims
        <5>1. p \notin view'
          BY <1>1, <2>3, <4>2, <4>4
        <5>2. races' = {} => races = {}
          OBVIOUS
        <5>3. races = {} => ~Coming(c, p)'
          BY <1>1, <3>2, <4>4, <5>1 DEF SnapshotIsCorrected, Coming, Snapshot
        <5> QED BY <4>4, <5>2, <5>3
      <4> QED BY <4>3, <4>4
    <3> QED BY <3>3, <3>4, <3>5 DEF AllIsTrue
  <2> QED BY <2>2, <2>3
<1> QED BY <1>1, <1>4, <1>5, DeliversAfter

\* The loss of an older connection, if the viewer has not heard by the newest yet.
LEMMA DisconnectDelivers ==
  ASSUME SyncInv, NEW c \in Conns, OwnerSettled(c), Delivers(c), NEW d \in Conns, HandleDisconnected(d),
         races \subseteq races', races' \subseteq {"overtaken"}
  PROVE  Delivers(c)'
<1> USE DEF SyncInv
<1>1. /\ UNCHANGED <<claims, nodeRegistries, owed, outbox, connection, snapshot, arriving, seen, held>>
      /\ d \in broken /\ (seen > d => "undone" \in races')
      /\ \A e \in Conns : e # d => wire'[e] = wire[e]
  BY DEF HandleDisconnected, owner, maps, Happens, TypeOK
<1>2. /\ handler.viewer[d] = "reading" /\ \A e \in Conns : e # d => handler'.viewer[e] = handler.viewer[e]
      /\ handler'.owner[c] = handler.owner[c]
  BY AdvanceIs, SidesAre DEF HandleDisconnected, Phases
<1>3. d # c
  BY <1>1 DEF OwnerSettled
<1>4. d < c /\ seen # c
  <2>1. d <= c
    BY <1>2, ReaderIs
  <2>2. d \in Nat /\ c \in Nat
    BY ConnsAre
  <2> QED BY <1>1, <1>3, <2>1, <2>2
<1>5. ASSUME NEW p \in Claims, AllIsTrue(c, p) PROVE AllIsTrue(c, p)'
  <2>1. InArriving(c, p)' = InArriving(c, p)
    BY <1>1 DEF InArriving
  <2> QED BY <1>1, <1>2, <1>3, <1>4, <1>5, <2>1, FrameIsTrue
<1>6. ViewerSettled(c)' => ViewerSettled(c)
  BY <1>4 DEF ViewerSettled
<1> QED BY <1>1, <1>2, <1>5, <1>6, DeliversAfter

\* A handler that never got past its handshake, a break, a new connection.
LEMMA NetDelivers ==
  ASSUME TypeOK, NEW c \in Conns, Delivers(c), c \notin broken, Dial \/ \E d \in Conns : Break(d) \/ \E side \in Sides : HandshakeFails(side, d)
  PROVE  Delivers(c)'
<1>1. UNCHANGED <<claims, nodeRegistries, owed, outbox, connection, snapshot, view, arriving, races, seen, held>>
  BY DEF Dial, Break, HandshakeFails, owner, maps, viewer, history
<1>2. /\ wire'[c] = wire[c] /\ handler'.owner[c] = handler.owner[c]
      /\ \A e \in Conns : handler'.viewer[e] \in {"handshake", "over"} => handler.viewer[e] \in {"handshake", "over"}
  <2>1. CASE Dial \/ \E d \in Conns : Break(d)
    BY <2>1 DEF Dial, Break
  <2>2. ASSUME NEW d \in Conns, NEW side \in Sides, HandshakeFails(side, d)
        PROVE  /\ wire'[c] = wire[c] /\ handler'.owner[c] = handler.owner[c]
               /\ \A e \in Conns : handler'.viewer[e] \in {"handshake", "over"} => handler.viewer[e] \in {"handshake", "over"}
    <3>1. /\ d # c /\ handler[side][d] = "handshake"
          /\ \A s \in Sides, e \in Conns : handler'[s][e] = IF s = side /\ e = d THEN "over" ELSE handler[s][e]
      BY <2>2, AdvanceIs DEF HandshakeFails, Phases
    <3>2. wire'[c] = wire[c]
      BY <2>2, <3>1 DEF HandshakeFails, TypeOK
    <3> QED BY <3>1, <3>2, SidesAre
  <2> QED BY <2>1, <2>2
<1>3. ViewerSettled(c)' => ViewerSettled(c)
  BY <1>1, <1>2 DEF ViewerSettled
<1>4. ASSUME NEW p \in Claims, AllIsTrue(c, p) PROVE AllIsTrue(c, p)'
  <2>1. InArriving(c, p)' = InArriving(c, p)
    BY <1>1 DEF InArriving
  <2> QED BY <1>1, <1>2, <1>4, <2>1, FrameIsTrue
<1> QED BY <1>1, <1>2, <1>3, <1>4, DeliversAfter

LEMMA StreamIsTrueStep ==
  ASSUME SyncInv, [Next]_vars
  PROVE  StreamIsTrue'
<1>1. CASE UNCHANGED vars
  <2>1. StreamIsTrue
    BY DEF SyncInv
  <2> QED BY <1>1, <2>1 DEF StreamIsTrue, vars, owner, maps, viewer, net, history, OwnerSettled, Delivers, ViewerSettled,
        AllIsTrue, NewsIsTrue, RestIsTrue, SnapshotIsCorrected, Coming, Snapshot, Unsent, InOwed, InOutbox, InWire,
        InArriving, LastSays
<1>2. CASE Next
  <2> SUFFICES ASSUME NEW c \in Conns, OwnerSettled(c)', races' \subseteq {"overtaken"}
               PROVE  Delivers(c)'
    BY DEF StreamIsTrue
  <2>1. /\ OwnerSettled(c) \/ AddNodeRegistry(c)
        /\ \A d \in Conns : ~ForgetViewer(d) /\ ~OwnerEnds(d)
        /\ \A d \in Conns : OwnerHandler(d) => d = c
        /\ races \subseteq {"overtaken"} /\ races \subseteq races'
    BY <1>2, SettledBefore
  <2>2. CASE AddNodeRegistry(c)
    BY <2>2, AddNodeRegistryDelivers
  <2>3. CASE OwnerSettled(c)
    <3>1. Delivers(c) /\ TypeOK /\ OwesTruth /\ c \notin broken
      BY <2>1, <2>3 DEF SyncInv, StreamIsTrue, OwnerSettled
    <3>2. CASE \E claim \in Claims : Register(claim) \/ Unregister(claim)
      BY <3>1, <3>2, ChangeDelivers
    <3>3. CASE OwnerServe
      BY <2>1, <3>1, <3>3, BroadcastDelivers DEF OwnerServe
    <3>4. CASE Transmit
      BY <2>1, <2>3, <3>1, <3>4, TransmitDelivers
    <3>5. CASE ViewerServe
      BY <2>1, <2>3, <3>1, <3>5, ForwardDelivers DEF ViewerServe
    <3>6. CASE Dial \/ \E d \in Conns : Break(d) \/ \E side \in Sides : HandshakeFails(side, d)
      BY <3>1, <3>6, NetDelivers
    <3>7. ASSUME NEW d \in Conns, OwnerHandler(d) PROVE Delivers(c)'
      BY <2>1, <2>2, <3>1, <3>7, SetConnectionDelivers, TakeSnapshotDelivers, SendSnapshotDelivers DEF OwnerHandler
    <3>8. ASSUME NEW d \in Conns, ViewerHandler(d) PROVE Delivers(c)'
      <4>1. CASE StartReading(d)
        BY <3>1, <4>1, StartReadingDelivers
      <4>2. CASE ReadAllNodeClaims(d)
        BY <2>1, <2>3, <3>1, <4>2, ReadAllNodeClaimsDelivers
      <4>3. CASE ReadBroadcast(d)
        BY <3>1, <4>3, ReadBroadcastDelivers
      <4>4. CASE HandleDisconnected(d)
        BY <2>1, <2>3, <3>1, <4>4, DisconnectDelivers
      <4> QED BY <3>8, <4>1, <4>2, <4>3, <4>4 DEF ViewerHandler
    <3> QED BY <1>2, <3>2, <3>3, <3>4, <3>5, <3>6, <3>7, <3>8 DEF Next
  <2> QED BY <2>1, <2>2, <2>3
<1> QED BY <1>1, <1>2

-----------------------------------------------------------------------------
(* The theorems *)

\* The handlers of both nodes keep to their order whatever connections come and go
\* (node.go:321-353, listener.go:329-362), remoteMailboxes never holds an ended
\* connection (remoteMailboxes.go:93-112), and, until a race happens, what the viewer
\* knows and what is on its way to it are the owner's claims.
THEOREM SyncInvariant == Spec => []SyncInv
<1>1. Init => SyncInv
  BY SyncInit
<1>2. SyncInv /\ [Next]_vars => SyncInv'
  BY TypesStep, ConnectionLivesStep, InOrderStep, OwesTruthStep, ViewHasReaderStep, StreamIsTrueStep DEF SyncInv
<1> QED BY <1>1, <1>2, PTL DEF Spec

LEMMA QuietAgrees == SyncInv => ViewsAgree
<1> SUFFICES ASSUME SyncInv, NEW c \in Conns, Quiet(c), races \subseteq {"overtaken"}
             PROVE  (races = {} => view = claims) /\ claims \subseteq view
  BY DEF ViewsAgree
<1> USE DEF SyncInv
<1>0. dialed \in Nat /\ Conns \subseteq Nat \ {0} /\ claims \subseteq Claims /\ view \subseteq Claims
  BY Numbers, ConnsAre DEF TypeOK
<1>1. /\ c \notin broken /\ handler.owner[c] = "reading" /\ handler.viewer[c] = "reading"
      /\ \A d \in 1..dialed : d # c => handler.owner[d] = "over" /\ handler.viewer[d] = "over"
      /\ owed = {} /\ losses = {} /\ outbox = <<>> /\ wire[c] = <<>> /\ arriving = <<>>
  BY SidesAre DEF Quiet
<1>2. c = dialed
  <2>1. ~(c < dialed)
    BY <1>1 DEF InOrder
  <2>2. ~(c > dialed)
    BY <1>1, SidesAre DEF ConnectionLives
  <2> QED BY <1>0, <2>1, <2>2
<1>3. \A d \in Conns : d < c => handler.owner[d] = "over" /\ handler.viewer[d] = "over"
  BY <1>0, <1>1, <1>2
<1>4. OwnerSettled(c) /\ ViewerSettled(c)
  BY <1>1, <1>2, <1>3 DEF OwnerSettled, ViewerSettled
<1>5. ASSUME NEW p \in Claims PROVE RestIsTrue(c, p)
  BY <1>4 DEF StreamIsTrue, Delivers, AllIsTrue
<1>6. ASSUME NEW p \in Claims
      PROVE  ~Unsent(p) /\ InWire(c, p) = {} /\ InArriving(c, p) = {} /\ (Coming(c, p) <=> seen = c /\ p \in view)
  BY <1>1 DEF Unsent, InOwed, InOutbox, InWire, InArriving, Coming
<1>7. ASSUME NEW p \in Claims PROVE (p \in claims => p \in view) /\ (races = {} /\ seen = c /\ p \in view => p \in claims)
  BY <1>1, <1>5, <1>6 DEF RestIsTrue
<1>8. seen # c => view = {}
  BY <1>3, <1>4, FirstHeard
<1> QED BY <1>0, <1>7, <1>8

\* When both sides are up and everything sent was handled, the viewer's registry has
\* exactly the owner's claims, unless one of the races happened; and none is missing if
\* only broadcasts overtook snapshots (registry.go:366-419, remoteMailboxes.go:120-151).
THEOREM ViewsAgreeWhenQuiet == Spec => []ViewsAgree
BY SyncInvariant, QuietAgrees, PTL
=============================================================================

------------------------- MODULE NodeLifecycleProofs -------------------------
(***************************************************************************)
(* Of two nodes that know each other one dials and the other listens; the  *)
(* dialer has one connection at a time, whatever fails; and once handlers  *)
(* are at rest the last thing the status callbacks heard is true, unless   *)
(* at a listener the handler of an older connection crossed that of a      *)
(* newer.  The argument for the last: of the connections at rest only the  *)
(* newest can be open, and only a crossing lets an older handler speak     *)
(* after it.                                                               *)
(***************************************************************************)
EXTENDS NodeLifecycle, TLAPS

-----------------------------------------------------------------------------
(* Who dials *)

\* newConnections (connection.go:196-231): two nodes whose specifications both have
\* both agree on who dials, and have a remoteMailboxes for each other.
THEOREM OneSideDials ==
  ASSUME NEW one, NEW other, NEW a \in NodeIDs, NEW b \in NodeIDs, a # b,
         {a, b} \subseteq Nodes(one), {a, b} \subseteq Nodes(other)
  PROVE  /\ b \in NodeConnectors(one, a) <=> a \notin NodeConnectors(other, b)
         /\ b \in NodeConnectors(one, a) => NeedListener(other, b)
         /\ b \in RemoteMailboxes(one, a) /\ a \in RemoteMailboxes(other, b)
<1>1. b \in NodeConnectors(one, a) <=> a < b
  BY DEF NodeConnectors
<1>2. a \in NodeConnectors(other, b) <=> b < a
  BY DEF NodeConnectors
<1>3. a < b \/ b < a
  BY DEF NodeIDs
<1>4. ~(a < b /\ b < a)
  BY DEF NodeIDs
<1> QED BY <1>1, <1>2, <1>3, <1>4 DEF NeedListener, RemoteMailboxes

-----------------------------------------------------------------------------
LEMMA SidesAre == Sides = {"dialer", "listener"} /\ \A side \in Sides : Other(side) \in Sides
  BY DEF Sides, Other

\* What a step of a handler does to the phases.
LEMMA AdvanceIs ==
  ASSUME TypeOK, NEW side \in Sides, NEW c \in Conns, NEW from, NEW to \in Phases,
         Advance(side, c, from, to)
  PROVE  /\ handler' \in [Sides -> [Conns -> Phases]]
         /\ handler[side][c] \in from
         /\ \A s \in Sides, d \in Conns :
              handler'[s][d] = IF s = side /\ d = c THEN to ELSE handler[s][d]
  BY DEF Advance, TypeOK

\* Initially no handler has begun.
LEMMA LifecycleInit == Init => LifecycleInv
<1> SUFFICES ASSUME Init PROVE LifecycleInv
  OBVIOUS
<1>1. TypeOK
  <2>1. dialed \in 0..MaxConns /\ faults \in 0..MaxFaults
    BY NodeLifecycleAssumption DEF Init
  <2>2. handler \in [Sides -> [Conns -> Phases]]
    BY DEF Init, Phases
  <2>3. open \in [Conns -> SUBSET Sides] /\ shaken \in [Conns -> SUBSET Sides]
    BY DEF Init
  <2>4. sender \in [Sides -> Conns \cup {None}] /\ status \in [Sides -> BOOLEAN]
    BY DEF Init
  <2> QED BY <2>1, <2>2, <2>3, <2>4 DEF Init, TypeOK
<1>2. OneConnection
  BY NodeLifecycleAssumption DEF Init, OneConnection, Before, None, Sides, Conns
<1>3. LastWord
  BY NodeLifecycleAssumption DEF Init, LastWord, None, Sides, Conns
<1> QED BY <1>1, <1>2, <1>3 DEF LifecycleInv

-----------------------------------------------------------------------------
(* Types *)

LEMMA DialTypes ==
  ASSUME TypeOK, Dial
  PROVE  TypeOK'
<1>1. CASE StartConnector
  BY <1>1 DEF StartConnector, TypeOK, nodeListener, handlers, net, supervisors
<1>2. CASE Connect
  <2>1. dialed \in Nat /\ dialed' = dialed + 1 /\ dialed' \in Conns
    BY <1>2, NodeLifecycleAssumption DEF Connect, TypeOK, Conns
  <2> QED BY <1>2, <2>1 DEF Connect, TypeOK, nodeListener, handlers, supervisors, Conns
<1>3. CASE ConnectFails
  <2>1. faults' \in 0..MaxFaults
    BY <1>3, NodeLifecycleAssumption DEF ConnectFails, Fault, TypeOK
  <2> QED BY <1>3, <2>1 DEF ConnectFails, TypeOK, nodeListener, handlers, net, supervisors
<1>4. CASE CheckCancel
  <2>1. handler' \in [Sides -> [Conns -> Phases]]
    BY <1>4 DEF CheckCancel, Advance, TypeOK, Phases
  <2>2. open' \in [Conns -> SUBSET Sides]
    BY <1>4 DEF CheckCancel, Closed, TypeOK
  <2> QED BY <1>4, <2>1, <2>2 DEF CheckCancel, TypeOK, nodeListener, supervisors
<1> QED BY <1>1, <1>2, <1>3, <1>4 DEF Dial

LEMMA DropWaitingTypes ==
  ASSUME TypeOK, DropWaiting
  PROVE  open' \in [Conns -> SUBSET Sides] /\ \A c \in Conns : open'[c] \subseteq open[c]
  BY DEF DropWaiting, TypeOK

LEMMA CloseListenerTypes ==
  ASSUME TypeOK, CloseListener
  PROVE  listener' = "closed" /\ open' \in [Conns -> SUBSET Sides]
         /\ \A c \in Conns : open'[c] \subseteq open[c]
  BY DropWaitingTypes DEF CloseListener

LEMMA ListenTypes ==
  ASSUME TypeOK, Listen \/ LoseListener \/ AcceptErrs \/ CollectSocket
  PROVE  TypeOK'
<1>0. Fault => faults' \in 0..MaxFaults
  BY NodeLifecycleAssumption DEF Fault, TypeOK
<1>1. CASE StartListener \/ ObeyStop \/ ListenTCP
  BY <1>1 DEF StartListener, ObeyStop, ListenTCP, TypeOK, connector, handlers, net, supervisors
<1>2. CASE AcceptFails
  BY <1>2 DEF AcceptFails, TypeOK, connector, handlers, net, supervisors
<1>3. ASSUME NEW c \in Conns, Accept(c) PROVE TypeOK'
  <2>1. handler' \in [Sides -> [Conns -> Phases]]
    BY <1>3 DEF Accept, Advance, TypeOK, Phases
  <2> QED BY <1>3, <2>1 DEF Accept, TypeOK, connector, nodeListener, net, supervisors
<1>4. CASE ListenFails
  BY <1>0, <1>4 DEF ListenFails, Listening, TypeOK, connector, handlers, net, supervisors
<1>5. CASE LoseListener
  BY <1>0, <1>5, CloseListenerTypes DEF LoseListener, TypeOK, connector, handlers, supervisors
<1>6. CASE AcceptErrs
  BY <1>0, <1>6 DEF AcceptErrs, TypeOK, connector, handlers, net, supervisors
<1>7. CASE CollectSocket
  BY <1>7, DropWaitingTypes DEF CollectSocket, TypeOK, connector, handlers, supervisors
<1> QED BY <1>1, <1>2, <1>3, <1>4, <1>5, <1>6, <1>7 DEF Listen

LEMMA CrossesTypes ==
  ASSUME TypeOK, NEW side \in Sides, NEW c, NEW phases, Crosses(side, c, phases)
  PROVE  /\ crossed' \subseteq Sides
         /\ crossed \subseteq crossed' /\ crossed' \subseteq crossed \cup {side}
         /\ \A d \in Conns : d > c /\ handler[side][d] \in phases => side \in crossed'
         /\ (\A d \in Conns : d > c => handler[side][d] \notin phases) => crossed' = crossed
  BY DEF Crosses, TypeOK

LEMMA ReturnTypes ==
  ASSUME TypeOK, NEW side \in Sides, NEW c \in Conns, NEW from, NEW closes \in BOOLEAN,
         Return(side, c, from, closes), sender' \in [Sides -> Conns \cup {None}]
  PROVE  TypeOK'
<1>1. handler' \in [Sides -> [Conns -> Phases]]
  BY DEF Return, Advance, TypeOK, Phases
<1>2. open' \in [Conns -> SUBSET Sides]
  BY DEF Return, Closed, TypeOK
<1>3. serve' \in {"ended", "connecting", "connected", "running"}
  BY DEF Return, TypeOK
<1> QED BY <1>1, <1>2, <1>3 DEF Return, TypeOK, nodeListener, supervisors

LEMMA HandleTypes ==
  ASSUME TypeOK, NEW side \in Sides, NEW c \in Conns, Handle(side, c) \/ GiveUp(side, c)
  PROVE  TypeOK'
<1>1. CASE Shake(side, c)
  <2>1. handler' \in [Sides -> [Conns -> Phases]]
    BY <1>1 DEF Shake, Advance, TypeOK, Phases
  <2> QED BY <1>1, <2>1 DEF Shake, TypeOK, connector, nodeListener, supervisors
<1>2. CASE RegistrySync(side, c)
  <2>1. handler' \in [Sides -> [Conns -> Phases]]
    BY <1>2 DEF RegistrySync, Advance, TypeOK, Phases
  <2> QED BY <1>2, <2>1 DEF RegistrySync, TypeOK, connector, nodeListener, net, supervisors
<1>3. CASE SetConnection(side, c)
  <2>1. handler' \in [Sides -> [Conns -> Phases]]
    BY <1>3 DEF SetConnection, Advance, TypeOK, Phases
  <2>2. crossed' \subseteq Sides
    BY <1>3, CrossesTypes DEF SetConnection
  <2>3. sender' \in [Sides -> Conns \cup {None}]
    BY <1>3 DEF SetConnection, TypeOK
  <2> QED BY <1>3, <2>1, <2>2, <2>3 DEF SetConnection, TypeOK, connector, nodeListener, net, supervisors
<1>4. CASE ReportConnected(side, c)
  <2>1. handler' \in [Sides -> [Conns -> Phases]]
    BY <1>4 DEF ReportConnected, Advance, TypeOK, Phases
  <2> QED BY <1>4, <2>1 DEF ReportConnected, TypeOK, connector, nodeListener, net, supervisors
<1>5. CASE EndLoop(side, c)
  <2>1. handler' \in [Sides -> [Conns -> Phases]]
    BY <1>5 DEF EndLoop, Advance, TypeOK, Phases
  <2>2. crossed' \subseteq Sides
    BY <1>5, CrossesTypes DEF EndLoop
  <2>3. status' \in [Sides -> BOOLEAN]
    BY <1>5 DEF EndLoop, TypeOK
  <2> QED BY <1>5, <2>1, <2>2, <2>3 DEF EndLoop, TypeOK, connector, nodeListener, net, supervisors
<1>6. CASE UnsetConnection(side, c)
  BY <1>6, ReturnTypes DEF UnsetConnection, TypeOK
<1>7. CASE HandshakeFails(side, c)
  BY <1>7, ReturnTypes DEF HandshakeFails, TypeOK
<1>8. CASE side = "listener" /\ HandlerPanics(c)
  BY <1>8, ReturnTypes DEF HandlerPanics, TypeOK
<1> QED BY <1>1, <1>2, <1>3, <1>4, <1>5, <1>6, <1>7, <1>8 DEF Handle, Lose, GiveUp

LEMMA RestTypes ==
  ASSUME TypeOK,
         \/ \E c \in Conns : Collect(c) \/ Break(c)
         \/ \E side \in Sides : StopNode(side)
         \/ StopConnector \/ StopListener
  PROVE  TypeOK'
<1>1. ASSUME NEW c \in Conns, Collect(c) PROVE TypeOK'
  BY <1>1 DEF Collect, Closed, TypeOK, connector, nodeListener, handlers, supervisors
<1>2. ASSUME NEW c \in Conns, Break(c) PROVE TypeOK'
  BY <1>2 DEF Break, Closed, TypeOK, connector, nodeListener, handlers, supervisors
<1>3. ASSUME NEW side \in Sides, StopNode(side) PROVE TypeOK'
  BY <1>3 DEF StopNode, TypeOK, connector, nodeListener, handlers, net
<1>4. CASE StopConnector
  <2>1. told' \subseteq Sides
    BY <1>4 DEF StopConnector, Told, TypeOK
  <2>2. open' \in [Conns -> SUBSET Sides] /\ connection' \in Conns \cup {None}
        /\ missed' \in BOOLEAN /\ cancel' \in BOOLEAN
    <3>1. CASE connection # None
      <4>1. open' \in [Conns -> SUBSET Sides]
        BY <1>4, <3>1 DEF StopConnector, Closed, TypeOK
      <4> QED BY <1>4, <3>1, <4>1 DEF StopConnector, TypeOK
    <3>2. CASE connection = None
      BY <1>4, <3>2 DEF StopConnector, TypeOK
    <3> QED BY <3>1, <3>2
  <2> QED BY <1>4, <2>1, <2>2 DEF StopConnector, TypeOK, nodeListener, handlers
<1>5. CASE StopListener
  <2>1. told' \subseteq Sides
    BY <1>5 DEF StopListener, Told, TypeOK
  <2> QED BY <1>5, <2>1, CloseListenerTypes DEF StopListener, TypeOK, connector, handlers
<1> QED BY <1>1, <1>2, <1>3, <1>4, <1>5

-----------------------------------------------------------------------------
(* One connection *)

\* What leaves Serve and its connection alone.
LEMMA OneConnectionKept ==
  ASSUME OneConnection, serve' = serve, dialed' = dialed, connection' \in {connection, None},
         \A c \in Conns : handler'.dialer[c] \in Before <=> handler.dialer[c] \in Before,
         \A side \in Sides, c \in Conns : c > dialed => handler'[side][c] = "none",
         \A c \in Conns : open'[c] \subseteq open[c],
         cancel' => "dialer" \in told'
  PROVE  OneConnection'
  BY DEF OneConnection

\* The steps of Serve up to the handshakes.
LEMMA DialKeepsOne ==
  ASSUME TypeOK, OneConnection, Dial
  PROVE  OneConnection'
<1>1. CASE StartConnector
  BY <1>1 DEF StartConnector, OneConnection, nodeListener, handlers, net, supervisors
<1>2. CASE Connect
  <2>1. /\ dialed \in Nat /\ dialed' = dialed + 1 /\ dialed' \in Conns
        /\ connection' = dialed' /\ serve = "connecting" /\ serve' = "connected"
        /\ open' = [open EXCEPT ![dialed'] = Sides]
        /\ UNCHANGED <<cancel, handler, told>>
    BY <1>2, NodeLifecycleAssumption DEF Connect, TypeOK, Conns, handlers, supervisors
  <2>2. \A c \in Conns : "dialer" \notin open[c]
    BY <2>1 DEF OneConnection
  <2>3. \A c \in Conns : "dialer" \in open'[c] => c = dialed'
    BY <2>1, <2>2 DEF TypeOK
  <2>4. \A side \in Sides, c \in Conns : c > dialed' => handler'[side][c] = "none"
    BY <2>1 DEF OneConnection, Conns
  <2>5. \A c \in Conns : handler.dialer[c] \in Before
    BY <2>1 DEF OneConnection
  <2> QED BY <2>1, <2>3, <2>4, <2>5 DEF OneConnection
<1>3. CASE ConnectFails
  BY <1>3 DEF ConnectFails, OneConnection, nodeListener, handlers, net, supervisors
<1>4. CASE CheckCancel
  <2>1. /\ serve = "connected" /\ serve' = "running" /\ dialed \in Conns
        /\ Advance("dialer", dialed, {"none"}, "handshake")
        /\ UNCHANGED <<connection, cancel, dialed, told>>
    BY <1>4 DEF CheckCancel, OneConnection, supervisors
  <2>2. /\ \A side \in Sides, d \in Conns :
             handler'[side][d] = IF side = "dialer" /\ d = dialed THEN "handshake" ELSE handler[side][d]
    BY <2>1, AdvanceIs DEF Sides, Phases
  <2>3. \A c \in Conns : open'[c] \subseteq open[c]
    BY <1>4 DEF CheckCancel, Closed, TypeOK
  <2>4. \A c \in Conns : handler'.dialer[c] \notin Before <=> c = dialed
    BY <2>1, <2>2 DEF OneConnection, Before, Sides
  <2>5. \A side \in Sides, c \in Conns : c > dialed => handler'[side][c] = "none"
    BY <2>1, <2>2 DEF OneConnection, Conns
  <2> QED BY <2>1, <2>3, <2>4, <2>5 DEF OneConnection
<1> QED BY <1>1, <1>2, <1>3, <1>4 DEF Dial

\* A handler that goes on is of a connection that was made, and so it stays.
LEMMA AdvanceKeepsOne ==
  ASSUME TypeOK, OneConnection, NEW side \in Sides, NEW c \in Conns,
         NEW from \in SUBSET Phases, NEW to \in Phases \ Before,
         Advance(side, c, from, to), "none" \notin from \/ c <= dialed,
         "over" \notin from, side = "dialer" => "none" \notin from,
         UNCHANGED <<serve, connection, cancel, dialed, open, told>>
  PROVE  OneConnection'
<1>1. /\ handler[side][c] \in from
      /\ \A s \in Sides, d \in Conns :
           handler'[s][d] = IF s = side /\ d = c THEN to ELSE handler[s][d]
  BY AdvanceIs
<1>2. c <= dialed
  BY <1>1, NodeLifecycleAssumption DEF OneConnection, Conns, TypeOK
<1>3. \A s \in Sides, d \in Conns : d > dialed => handler'[s][d] = "none"
  <2> SUFFICES ASSUME NEW s \in Sides, NEW d \in Conns, d > dialed PROVE handler'[s][d] = "none"
    OBVIOUS
  <2>1. d # c
    BY <1>2, NodeLifecycleAssumption DEF TypeOK, Conns
  <2> QED BY <2>1, <1>1 DEF OneConnection
<1>4. \A d \in Conns : handler'.dialer[d] \in Before <=> handler.dialer[d] \in Before
  BY <1>1 DEF Before, Sides
<1> QED BY <1>3, <1>4, OneConnectionKept DEF OneConnection

\* A handler that returns: if it is the dialer's, Serve returns with it, and its
\* connection is closed.
LEMMA ReturnKeepsOne ==
  ASSUME TypeOK, OneConnection, NEW side \in Sides, NEW c \in Conns,
         NEW from \in SUBSET (Phases \ Before), NEW closes \in BOOLEAN,
         Return(side, c, from, closes), side = "dialer" => closes
  PROVE  OneConnection'
<1>1. /\ Advance(side, c, from, "over")
      /\ UNCHANGED <<connection, cancel, dialed, told>>
  BY DEF Return, supervisors
<1>2. /\ handler[side][c] \in from
      /\ \A s \in Sides, d \in Conns :
           handler'[s][d] = IF s = side /\ d = c THEN "over" ELSE handler[s][d]
  BY <1>1, AdvanceIs DEF Phases
<1>3. \A s \in Sides, d \in Conns : d > dialed => handler'[s][d] = "none"
  BY <1>2 DEF OneConnection, Before
<1>4. \A d \in Conns : open'[d] \subseteq open[d]
  BY DEF Return, Closed, TypeOK
<1>5. CASE side = "listener"
  <2>1. serve' = serve /\ \A d \in Conns : handler'.dialer[d] = handler.dialer[d]
    BY <1>2, <1>5 DEF Return, Sides
  <2> QED BY <1>1, <1>3, <1>4, <2>1, OneConnectionKept DEF OneConnection
<1>6. CASE side = "dialer"
  <2>1. serve = "running" /\ c = dialed /\ serve' = "ended"
    BY <1>2, <1>6 DEF Return, OneConnection, Before
  <2>2. \A d \in Conns : handler'.dialer[d] \in Before
    BY <1>2, <1>6, <2>1 DEF OneConnection, Before, Sides
  <2>3. \A d \in Conns : "dialer" \notin open'[d]
    <3>1. open' = Closed(c, {"dialer"})
      BY <1>6 DEF Return
    <3> QED BY <3>1, <2>1 DEF Closed, OneConnection, TypeOK
  <2> QED BY <1>1, <1>3, <2>1, <2>2, <2>3 DEF OneConnection
<1> QED BY <1>5, <1>6 DEF Sides

LEMMA NextKeepsOne ==
  ASSUME TypeOK, OneConnection, Next
  PROVE  OneConnection'
<1>1. CASE Dial
  BY <1>1, DialKeepsOne
<1>2. CASE StartListener \/ ObeyStop \/ ListenTCP \/ ListenFails \/ AcceptFails \/ AcceptErrs
  BY <1>2, OneConnectionKept
     DEF StartListener, ObeyStop, ListenTCP, ListenFails, AcceptFails, AcceptErrs,
         OneConnection, connector, handlers, net, supervisors
<1>3. ASSUME NEW c \in Conns, Accept(c) PROVE OneConnection'
  BY <1>3, AdvanceKeepsOne
     DEF Accept, Sides, Phases, Before, connector, net, supervisors
<1>4. CASE LoseListener \/ CollectSocket
  BY <1>4, CloseListenerTypes, DropWaitingTypes, OneConnectionKept
     DEF LoseListener, CollectSocket, OneConnection, connector, handlers, supervisors
<1>5. ASSUME NEW side \in Sides, NEW c \in Conns, Handle(side, c) \/ GiveUp(side, c)
      PROVE  OneConnection'
  <2>1. CASE Shake(side, c)
    BY <2>1, AdvanceKeepsOne DEF Shake, Phases, Before, connector, supervisors
  <2>2. CASE RegistrySync(side, c)
    BY <2>2, AdvanceKeepsOne DEF RegistrySync, Phases, Before, connector, net, supervisors
  <2>3. CASE SetConnection(side, c)
    BY <2>3, AdvanceKeepsOne DEF SetConnection, Phases, Before, connector, net, supervisors
  <2>4. CASE ReportConnected(side, c)
    BY <2>4, AdvanceKeepsOne DEF ReportConnected, Phases, Before, connector, net, supervisors
  <2>5. CASE EndLoop(side, c)
    BY <2>5, AdvanceKeepsOne DEF EndLoop, Phases, Before, connector, net, supervisors
  <2>6. CASE UnsetConnection(side, c)
    BY <2>6, ReturnKeepsOne DEF UnsetConnection, Phases, Before
  <2>7. CASE HandshakeFails(side, c)
    <3>1. PICK closes \in BOOLEAN :
            /\ side = "dialer" => closes
            /\ Return(side, c, {"handshake", "shaken"}, closes)
      BY <2>7 DEF HandshakeFails
    <3> QED BY <3>1, ReturnKeepsOne DEF Phases, Before
  <2>8. CASE side = "listener" /\ HandlerPanics(c)
    BY <2>8, ReturnKeepsOne DEF HandlerPanics, Phases, Before
  <2> QED BY <1>5, <2>1, <2>2, <2>3, <2>4, <2>5, <2>6, <2>7, <2>8 DEF Handle, Lose, GiveUp
<1>6. ASSUME NEW c \in Conns, Collect(c) \/ Break(c) PROVE OneConnection'
  <2>1. \A d \in Conns : open'[d] \subseteq open[d]
    BY <1>6 DEF Collect, Break, Closed, TypeOK
  <2> QED BY <1>6, <2>1, OneConnectionKept
          DEF Collect, Break, OneConnection, connector, handlers, supervisors
<1>7. ASSUME NEW side \in Sides, StopNode(side) PROVE OneConnection'
  BY <1>7, OneConnectionKept DEF StopNode, OneConnection, connector, handlers, net
<1>8. CASE StopConnector
  <2>1. \A d \in Conns : open'[d] \subseteq open[d]
    BY <1>8 DEF StopConnector, Closed, TypeOK
  <2>2. "dialer" \in told' /\ connection' \in {connection, None}
    BY <1>8 DEF StopConnector, Told
  <2> QED BY <1>8, <2>1, <2>2, OneConnectionKept DEF StopConnector, OneConnection, handlers
<1>9. CASE StopListener
  <2>1. \A d \in Conns : open'[d] \subseteq open[d]
    BY <1>9, CloseListenerTypes DEF StopListener
  <2>2. told \subseteq told'
    BY <1>9 DEF StopListener, Told
  <2> QED BY <1>9, <2>1, <2>2, OneConnectionKept DEF StopListener, OneConnection, connector, handlers
<1> QED BY <1>1, <1>2, <1>3, <1>4, <1>5, <1>6, <1>7, <1>8, <1>9 DEF Next, Listen

-----------------------------------------------------------------------------
(* The last word *)

LEMMA LastWordKept ==
  ASSUME LastWord, UNCHANGED <<handler, sender, status, crossed, dialed>>
  PROVE  LastWord'
  BY DEF LastWord, Up

\* Steps of a handler that are not about setConnection and the reports.
LEMMA QuietAdvance ==
  ASSUME TypeOK, LastWord, NEW side \in Sides, NEW c \in Conns,
         NEW from \in SUBSET {"none", "handshake", "shaken"},
         NEW to \in {"handshake", "shaken", "synced", "over"},
         Advance(side, c, from, to), UNCHANGED <<sender, status, crossed, dialed>>
  PROVE  LastWord'
<1>1. /\ handler[side][c] \in from
      /\ \A s \in Sides, d \in Conns :
           handler'[s][d] = IF s = side /\ d = c THEN to ELSE handler[s][d]
  BY AdvanceIs DEF Phases
<1>2. ASSUME NEW s \in Sides, NEW d \in Conns
      PROVE  /\ Up(s, d)' <=> Up(s, d)
             /\ handler'[s][d] \in {"set", "up"} <=> handler[s][d] \in {"set", "up"}
             /\ handler'[s][d] \in {"set", "up", "down"} <=> handler[s][d] \in {"set", "up", "down"}
  BY <1>1 DEF Up
<1>3. \A s \in Sides : sender[s] # None => sender[s] \in Conns
  BY DEF TypeOK
<1> QED BY <1>2, <1>3 DEF LastWord

\* A new connection has no handler that was set or up.
LEMMA ConnectKeepsLastWord ==
  ASSUME TypeOK, OneConnection, LastWord, Connect
  PROVE  LastWord'
<1>1. dialed' = dialed + 1 /\ UNCHANGED <<handler, sender, status, crossed>>
  BY DEF Connect, handlers
<1>2. \A side \in Sides : dialed' \in Conns => handler[side][dialed'] = "none"
  BY <1>1 DEF OneConnection, TypeOK
<1> QED BY <1>1, <1>2 DEF LastWord, Up

\* Where a handler at work is of an older connection than the newest, it is the
\* listener's.
LEMMA OlderIsListeners ==
  ASSUME TypeOK, OneConnection, NEW side \in Sides, NEW c \in Conns,
         handler[side][c] \notin Before
  PROVE  /\ dialed \in Conns /\ c <= dialed
         /\ side = "dialer" => \A d \in Conns : d > c => handler[side][d] = "none"
<1>1. c <= dialed
  BY NodeLifecycleAssumption DEF OneConnection, Before, Conns, TypeOK
<1>2. dialed \in Conns
  BY <1>1, NodeLifecycleAssumption DEF Conns, TypeOK
<1>3. side = "dialer" => c = dialed
  BY DEF OneConnection
<1> QED BY <1>1, <1>2, <1>3 DEF OneConnection, Sides

LEMMA SetConnectionKeepsLastWord ==
  ASSUME TypeOK, OneConnection, LastWord, NEW side \in Sides, NEW c \in Conns,
         SetConnection(side, c)
  PROVE  LastWord'
<1>1. /\ handler[side][c] = "synced"
      /\ \A s \in Sides, d \in Conns :
           handler'[s][d] = IF s = side /\ d = c THEN "set" ELSE handler[s][d]
  BY AdvanceIs DEF SetConnection, Phases
<1>2. /\ \A s \in Sides : sender'[s] = IF s = side THEN c ELSE sender[s]
      /\ UNCHANGED <<status, dialed>>
      /\ Crosses(side, c, {"set", "up"})
  BY DEF SetConnection, TypeOK, net
<1>3. /\ c <= dialed
      /\ side = "dialer" => \A d \in Conns : d > c => handler[side][d] = "none"
  BY <1>1, OlderIsListeners DEF Before
<1>4. /\ crossed \subseteq crossed' /\ crossed' \subseteq crossed \cup {side}
      /\ \A d \in Conns : d > c /\ handler[side][d] \in {"set", "up"} => side \in crossed'
      /\ (\A d \in Conns : d > c => handler[side][d] \notin {"set", "up"}) => crossed' = crossed
  BY <1>2, CrossesTypes
<1>5. "dialer" \notin crossed'
  BY <1>3, <1>4 DEF LastWord
<1>6. ASSUME NEW s \in Sides
      PROVE  /\ sender'[s] # None => handler'[s][sender'[s]] \in {"set", "up", "down"}
             /\ status'[s] => \E d \in Conns : Up(s, d)'
  <2>1. ASSUME sender'[s] # None PROVE handler'[s][sender'[s]] \in {"set", "up", "down"}
    <3>1. sender[s] # None => sender[s] \in Conns /\ handler[s][sender[s]] \in {"set", "up", "down"}
      BY DEF LastWord, TypeOK
    <3> QED BY <2>1, <3>1, <1>1, <1>2
  <2>2. ASSUME status'[s] PROVE \E d \in Conns : Up(s, d)'
    <3>1. PICK d \in Conns : handler[s][d] = "up"
      BY <2>2, <1>2 DEF LastWord, Up
    <3>2. handler'[s][d] = "up"
      BY <3>1, <1>1
    <3> QED BY <3>2 DEF Up
  <2> QED BY <2>1, <2>2
<1>7. ASSUME NEW s \in Sides, dialed' \in Conns, s \notin crossed'
      PROVE  /\ Up(s, dialed)' => status'[s]
             /\ handler'[s][dialed'] \in {"set", "up"} => sender'[s] = dialed'
  <2>1. CASE s = side
    <3>1. CASE c = dialed
      BY <2>1, <3>1, <1>1, <1>2 DEF Up
    <3>2. CASE c # dialed
      <4>1. dialed > c /\ dialed \in Conns
        BY <3>2, <1>2, <1>3, <1>7, NodeLifecycleAssumption DEF Conns
      <4> QED BY <4>1, <2>1, <1>1, <1>2, <1>4, <1>7 DEF Up
    <3> QED BY <3>1, <3>2
  <2>2. CASE s # side
    BY <2>2, <1>1, <1>2, <1>4, <1>7 DEF LastWord, Up
  <2> QED BY <2>1, <2>2
<1> QED BY <1>5, <1>6, <1>7 DEF LastWord

LEMMA ReportConnectedKeepsLastWord ==
  ASSUME TypeOK, LastWord, NEW side \in Sides, NEW c \in Conns, ReportConnected(side, c)
  PROVE  LastWord'
<1>1. /\ handler[side][c] = "set"
      /\ \A s \in Sides, d \in Conns :
           handler'[s][d] = IF s = side /\ d = c THEN "up" ELSE handler[s][d]
  BY AdvanceIs DEF ReportConnected, Phases
<1>2. /\ status'[side] /\ \A s \in Sides \ {side} : status'[s] = status[s]
      /\ UNCHANGED <<sender, dialed, crossed>>
  BY DEF ReportConnected, TypeOK, net
<1>3. ASSUME NEW s \in Sides
      PROVE  /\ sender'[s] # None => handler'[s][sender'[s]] \in {"set", "up", "down"}
             /\ status'[s] => \E d \in Conns : Up(s, d)'
  <2>1. ASSUME sender'[s] # None PROVE handler'[s][sender'[s]] \in {"set", "up", "down"}
    <3>1. sender[s] # None => sender[s] \in Conns /\ handler[s][sender[s]] \in {"set", "up", "down"}
      BY DEF LastWord, TypeOK
    <3> QED BY <2>1, <3>1, <1>1, <1>2
  <2>2. ASSUME status'[s] PROVE \E d \in Conns : Up(s, d)'
    <3>1. CASE s = side
      BY <3>1, <1>1 DEF Up
    <3>2. CASE s # side
      <4>1. PICK d \in Conns : handler[s][d] = "up"
        BY <3>2, <2>2, <1>2 DEF LastWord, Up
      <4>2. handler'[s][d] = "up"
        BY <3>2, <4>1, <1>1
      <4> QED BY <4>2 DEF Up
    <3> QED BY <3>1, <3>2
  <2> QED BY <2>1, <2>2
<1>4. ASSUME NEW s \in Sides, dialed' \in Conns, s \notin crossed'
      PROVE  /\ Up(s, dialed)' => status'[s]
             /\ handler'[s][dialed'] \in {"set", "up"} => sender'[s] = dialed'
  BY <1>1, <1>2, <1>4 DEF LastWord, Up
<1> QED BY <1>2, <1>3, <1>4 DEF LastWord

LEMMA EndLoopKeepsLastWord ==
  ASSUME TypeOK, OneConnection, LastWord, NEW side \in Sides, NEW c \in Conns,
         EndLoop(side, c)
  PROVE  LastWord'
<1>1. /\ handler[side][c] = "up"
      /\ \A s \in Sides, d \in Conns :
           handler'[s][d] = IF s = side /\ d = c THEN "down" ELSE handler[s][d]
  BY AdvanceIs DEF EndLoop, Phases
<1>2. /\ ~status'[side] /\ \A s \in Sides \ {side} : status'[s] = status[s]
      /\ UNCHANGED <<sender, dialed>>
      /\ Crosses(side, c, {"up"})
  BY DEF EndLoop, TypeOK, net
<1>3. /\ c <= dialed
      /\ side = "dialer" => \A d \in Conns : d > c => handler[side][d] = "none"
  BY <1>1, OlderIsListeners DEF Before
<1>4. /\ crossed \subseteq crossed' /\ crossed' \subseteq crossed \cup {side}
      /\ \A d \in Conns : d > c /\ handler[side][d] \in {"up"} => side \in crossed'
      /\ (\A d \in Conns : d > c => handler[side][d] \notin {"up"}) => crossed' = crossed
  BY <1>2, CrossesTypes
<1>5. "dialer" \notin crossed'
  BY <1>3, <1>4 DEF LastWord
<1>6. ASSUME NEW s \in Sides
      PROVE  /\ sender'[s] # None => handler'[s][sender'[s]] \in {"set", "up", "down"}
             /\ status'[s] => \E d \in Conns : Up(s, d)'
  <2>1. ASSUME sender'[s] # None PROVE handler'[s][sender'[s]] \in {"set", "up", "down"}
    <3>1. sender[s] # None => sender[s] \in Conns /\ handler[s][sender[s]] \in {"set", "up", "down"}
      BY DEF LastWord, TypeOK
    <3> QED BY <2>1, <3>1, <1>1, <1>2
  <2>2. ASSUME status'[s] PROVE \E d \in Conns : Up(s, d)'
    <3>1. s # side /\ status[s]
      BY <2>2, <1>2
    <3>2. PICK d \in Conns : handler[s][d] = "up"
      BY <3>1 DEF LastWord, Up
    <3>3. handler'[s][d] = "up"
      BY <3>1, <3>2, <1>1
    <3> QED BY <3>3 DEF Up
  <2> QED BY <2>1, <2>2
<1>7. ASSUME NEW s \in Sides, dialed' \in Conns, s \notin crossed'
      PROVE  /\ Up(s, dialed)' => status'[s]
             /\ handler'[s][dialed'] \in {"set", "up"} => sender'[s] = dialed'
  <2>1. CASE s = side
    <3>1. CASE c = dialed
      BY <2>1, <3>1, <1>1, <1>2 DEF Up
    <3>2. CASE c # dialed
      <4>1. dialed > c /\ dialed \in Conns
        BY <3>2, <1>2, <1>3, <1>7, NodeLifecycleAssumption DEF Conns
      <4> QED BY <4>1, <2>1, <1>1, <1>2, <1>4, <1>7 DEF LastWord, Up
    <3> QED BY <3>1, <3>2
  <2>2. CASE s # side
    BY <2>2, <1>1, <1>2, <1>4, <1>7 DEF LastWord, Up
  <2> QED BY <2>1, <2>2
<1> QED BY <1>5, <1>6, <1>7 DEF LastWord

LEMMA UnsetConnectionKeepsLastWord ==
  ASSUME TypeOK, LastWord, NEW side \in Sides, NEW c \in Conns, UnsetConnection(side, c)
  PROVE  LastWord'
<1>1. /\ handler[side][c] = "down"
      /\ \A s \in Sides, d \in Conns :
           handler'[s][d] = IF s = side /\ d = c THEN "over" ELSE handler[s][d]
  BY AdvanceIs DEF UnsetConnection, Return, Phases
<1>2. /\ \A s \in Sides : sender'[s] = IF s = side /\ sender[s] = c THEN None ELSE sender[s]
      /\ UNCHANGED <<status, dialed, crossed>>
  BY DEF UnsetConnection, Return, TypeOK
<1>3. ASSUME NEW s \in Sides
      PROVE  /\ sender'[s] # None => handler'[s][sender'[s]] \in {"set", "up", "down"}
             /\ status'[s] => \E d \in Conns : Up(s, d)'
  <2>1. ASSUME sender'[s] # None PROVE handler'[s][sender'[s]] \in {"set", "up", "down"}
    <3>1. sender[s] # None => sender[s] \in Conns /\ handler[s][sender[s]] \in {"set", "up", "down"}
      BY DEF LastWord, TypeOK
    <3> QED BY <2>1, <3>1, <1>1, <1>2
  <2>2. ASSUME status'[s] PROVE \E d \in Conns : Up(s, d)'
    <3>1. PICK d \in Conns : handler[s][d] = "up"
      BY <2>2, <1>2 DEF LastWord, Up
    <3>2. handler'[s][d] = "up"
      BY <3>1, <1>1
    <3> QED BY <3>2 DEF Up
  <2> QED BY <2>1, <2>2
<1>4. ASSUME NEW s \in Sides, dialed' \in Conns, s \notin crossed'
      PROVE  /\ Up(s, dialed)' => status'[s]
             /\ handler'[s][dialed'] \in {"set", "up"} => sender'[s] = dialed'
  BY <1>1, <1>2, <1>4 DEF LastWord, Up
<1> QED BY <1>2, <1>3, <1>4 DEF LastWord

LEMMA NextKeepsLastWord ==
  ASSUME TypeOK, OneConnection, LastWord, Next
  PROVE  LastWord'
<1>1. CASE Dial
  <2>1. CASE CheckCancel
    <3>1. dialed \in Conns
      BY <2>1 DEF CheckCancel, OneConnection
    <3> QED BY <2>1, <3>1, QuietAdvance DEF CheckCancel, Sides
  <2> QED BY <1>1, <2>1, LastWordKept, ConnectKeepsLastWord
          DEF Dial, StartConnector, ConnectFails, handlers, net
<1>2. CASE \/ StartListener \/ ObeyStop \/ ListenTCP \/ ListenFails \/ AcceptFails
           \/ AcceptErrs \/ LoseListener \/ CollectSocket
  BY <1>2, LastWordKept DEF StartListener, ObeyStop, ListenTCP, ListenFails, AcceptFails,
                            AcceptErrs, LoseListener, CollectSocket, handlers, net
<1>3. ASSUME NEW c \in Conns, Accept(c) PROVE LastWord'
  BY <1>3, QuietAdvance DEF Accept, Sides, net
<1>4. ASSUME NEW side \in Sides, NEW c \in Conns, Handle(side, c) \/ GiveUp(side, c)
      PROVE  LastWord'
  <2>1. CASE Shake(side, c)
    BY <2>1, QuietAdvance DEF Shake
  <2>2. CASE RegistrySync(side, c)
    BY <2>2, QuietAdvance DEF RegistrySync, net
  <2>3. CASE HandshakeFails(side, c)
    BY <2>3, QuietAdvance DEF HandshakeFails, Return
  <2>4. CASE side = "listener" /\ HandlerPanics(c)
    BY <2>4, QuietAdvance DEF HandlerPanics, Return
  <2> QED BY <1>4, <2>1, <2>2, <2>3, <2>4, SetConnectionKeepsLastWord,
             ReportConnectedKeepsLastWord, EndLoopKeepsLastWord, UnsetConnectionKeepsLastWord
          DEF Handle, Lose, GiveUp
<1>5. ASSUME NEW c \in Conns, Collect(c) \/ Break(c) PROVE LastWord'
  BY <1>5, LastWordKept DEF Collect, Break, handlers
<1>6. ASSUME NEW side \in Sides, StopNode(side) PROVE LastWord'
  BY <1>6, LastWordKept DEF StopNode, handlers, net
<1>7. CASE StopConnector \/ StopListener
  BY <1>7, LastWordKept DEF StopConnector, StopListener, handlers
<1> QED BY <1>1, <1>2, <1>3, <1>4, <1>5, <1>6, <1>7 DEF Next, Listen

-----------------------------------------------------------------------------
\* Every step keeps the invariant.
LEMMA LifecycleStep == LifecycleInv /\ [Next]_vars => LifecycleInv'
<1> SUFFICES ASSUME TypeOK, OneConnection, LastWord, [Next]_vars
             PROVE  TypeOK' /\ OneConnection' /\ LastWord'
  BY DEF LifecycleInv
<1>1. CASE Next
  <2>1. TypeOK'
    BY <1>1, DialTypes, ListenTypes, HandleTypes, RestTypes DEF Next
  <2> QED BY <1>1, <2>1, NextKeepsOne, NextKeepsLastWord
<1>2. CASE UNCHANGED vars
  <2>1. TypeOK'
    BY <1>2 DEF TypeOK, vars, connector, nodeListener, handlers, net, supervisors
  <2>2. OneConnection' /\ LastWord'
    BY <1>2, OneConnectionKept, LastWordKept
       DEF OneConnection, vars, connector, nodeListener, handlers, net, supervisors
  <2> QED BY <2>1, <2>2
<1> QED BY <1>1, <1>2

\* nodeConnector.Serve (node.go:115-163) has one connection at a time, and
\* remoteMailboxes (remoteMailboxes.go:93-112) only ones that are being handled.
THEOREM LifecycleInvariant == Spec => []LifecycleInv
<1> QED BY LifecycleInit, LifecycleStep, PTL DEF Spec

\* What the connection status callbacks heard last (definition.go:523, node.go:368-370,
\* listener.go:374-376) is true once the handlers are at rest.
THEOREM StatusTrue == Spec => []StatusIsTrue
<1>1. LifecycleInv => StatusIsTrue
  <2> SUFFICES ASSUME TypeOK, OneConnection, LastWord, NEW side \in Sides,
                      \A c \in Conns : handler[side][c] \in Before \/ (Up(side, c) /\ open[c] = Sides)
               PROVE  \/ /\ status[side] = (\E c \in Conns : Up(side, c))
                         /\ status[side] = (sender[side] # None)
                      \/ side = "listener" /\ side \in crossed
    BY DEF LifecycleInv, StatusIsTrue
  <2>1. CASE side \in crossed
    BY <2>1 DEF LastWord, Sides
  <2>2. CASE side \notin crossed
    <3>1. ASSUME NEW c \in Conns, Up(side, c) PROVE status[side] /\ sender[side] # None
      <4>1. c = dialed
        BY <3>1 DEF Up, Before, OneConnection, Sides
      <4> QED BY <2>2, <3>1, <4>1, NodeLifecycleAssumption DEF LastWord, Up, None, Conns
    <3>2. status[side] => \E c \in Conns : Up(side, c)
      BY DEF LastWord
    <3>3. sender[side] # None => \E c \in Conns : Up(side, c)
      BY DEF LastWord, TypeOK, Before, Up
    <3>4. status[side] \in BOOLEAN
      BY DEF TypeOK
    <3> QED BY <3>1, <3>2, <3>3, <3>4
  <2> QED BY <2>1, <2>2
<1> QED BY <1>1, LifecycleInvariant, PTL
=============================================================================

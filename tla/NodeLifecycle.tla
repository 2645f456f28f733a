---------------------------- MODULE NodeLifecycle ----------------------------
(***************************************************************************)
(* How two nodes get connected, lose the connection, connect again and     *)
(* stop: the connector of the node with the lower ID, the listener of the  *)
(* other, the handler each has for a connection, and the supervisors that  *)
(* start the Serve methods again when they return and stop them.           *)
(*                                                                         *)
(* What the handlers read and send once they are up is in RemoteLinks,     *)
(* RegistrySync and KeepAlive.                                             *)
(***************************************************************************)
EXTENDS Cluster, FiniteSets

CONSTANTS
  Dialer, Listener,  \* the two nodes
  Specs,             \* the cluster specifications a node may have
  MaxConns,          \* bound: connections
  MaxFaults,         \* bound: failures to dial, to listen or to accept, and lost listeners
  MaxStops           \* bound: nodes that are stopped

Conns == 1..MaxConns
None == 0
Sides == {"dialer", "listener"}
Other(side) == IF side = "dialer" THEN "listener" ELSE "dialer"

Node(side) == IF side = "dialer" THEN Dialer ELSE Listener

ASSUME NodeLifecycleAssumption ==
  /\ Dialer \in NodeIDs /\ Listener \in NodeIDs /\ Dialer < Listener
  /\ \A spec \in Specs : spec.nodes \in Seq(NodeDefinitions)
  /\ MaxConns \in Nat /\ MaxFaults \in Nat /\ MaxStops \in Nat

VARIABLES
  spec,        \* of each side: the cluster specification it was started with
  serve,       \* how far nodeConnector.Serve is
  connection,  \* nodeConnector.connection
  cancel,      \* nodeConnector.cancel
  loop,        \* how far nodeListener.Serve is
  listener,    \* nodeListener.listener
  abandoned,   \* whether a socket still listens that nodeListener let go of
  stopped,     \* nodeListener.stopped
  handler,     \* of each side and connection: how far its handling is
  sender,      \* of each side: remoteMailboxes.connection
  status,      \* of each side: what the connection status callbacks heard last
  dialed,      \* connections made so far
  open,        \* of each connection: the ends that can be used
  shaken,      \* of each connection: the sides that answered the handshakes
  stopping,    \* the nodes whose supervisor stops
  told,        \* the nodes whose supervisor has called Stop
  crossed,     \* history: the sides where an old handler had the last word after a newer one
  missed,      \* history: Stop found the connection of an earlier Serve
  faults

connector == <<serve, connection, cancel>>
nodeListener == <<loop, listener, abandoned, stopped>>
handlers == <<handler, sender, status, crossed>>
net == <<dialed, open, shaken>>
supervisors == <<stopping, told, missed>>
vars == <<spec, connector, nodeListener, handlers, net, supervisors, faults>>

\* none: not begun.  handshake: up to the end of clusterHandshake.  shaken:
\* registrySync.  synced, set: before and after setConnection.  up: the loop, when
\* "connected" was reported.  down: the loss was reported.
Phases == {"none", "handshake", "shaken", "synced", "set", "up", "down", "over"}

TypeOK ==
  /\ spec \in [Sides -> Specs]
  /\ serve \in {"ended", "connecting", "connected", "running"}
  /\ connection \in Conns \cup {None} /\ cancel \in BOOLEAN
  /\ loop \in {"ended", "called", "accepting"}
  /\ listener \in {"nil", "open", "closed"} /\ abandoned \in BOOLEAN /\ stopped \in BOOLEAN
  /\ handler \in [Sides -> [Conns -> Phases]]
  /\ sender \in [Sides -> Conns \cup {None}]
  /\ status \in [Sides -> BOOLEAN]
  /\ dialed \in 0..MaxConns
  /\ open \in [Conns -> SUBSET Sides] /\ shaken \in [Conns -> SUBSET Sides]
  /\ stopping \subseteq Sides /\ told \subseteq Sides
  /\ crossed \subseteq Sides /\ missed \in BOOLEAN
  /\ faults \in 0..MaxFaults

Init ==
  /\ spec \in [Sides -> Specs]
  /\ serve = "ended" /\ connection = None /\ cancel = FALSE
  /\ loop = "ended" /\ listener = "nil" /\ abandoned = FALSE /\ stopped = FALSE
  /\ handler = [side \in Sides |-> [c \in Conns |-> "none"]]
  /\ sender = [side \in Sides |-> None]
  /\ status = [side \in Sides |-> FALSE]
  /\ dialed = 0
  /\ open = [c \in Conns |-> {}]
  /\ shaken = [c \in Conns |-> {}]
  /\ stopping = {} /\ told = {}
  /\ crossed = {} /\ missed = FALSE
  /\ faults = 0

\* What the supervisor of a node has to run.
HasConnector == Accepts(spec.dialer, Dialer) /\ Listener \in NodeConnectors(spec.dialer, Dialer)
HasListener == Accepts(spec.listener, Listener) /\ NeedListener(spec.listener, Listener)

Closed(c, ends) == [open EXCEPT ![c] = @ \ ends]

Advance(side, c, from, to) ==
  /\ handler[side][c] \in from
  /\ handler' = [handler EXCEPT ![side][c] = to]

\* Something fails that need not, a bounded number of times.
Fault == faults < MaxFaults /\ faults' = faults + 1

-----------------------------------------------------------------------------
(* nodeConnector.Serve *)

\* The supervisor starts it again whenever it has returned.
StartConnector ==
  /\ serve = "ended"
  /\ HasConnector
  /\ "dialer" \notin stopping
  /\ serve' = "connecting"
  /\ UNCHANGED <<spec, connection, cancel, nodeListener, handlers, net, supervisors, faults>>

\* A socket takes connections, whether or not somebody accepts them.
Listening == listener = "open" \/ abandoned

\* connect() succeeds, and its result is assigned without the lock.
Connect ==
  /\ serve = "connecting"
  /\ Listening
  /\ dialed < MaxConns
  /\ dialed' = dialed + 1
  /\ open' = [open EXCEPT ![dialed + 1] = Sides]
  /\ connection' = dialed + 1
  /\ serve' = "connected"
  /\ UNCHANGED <<spec, cancel, nodeListener, handlers, shaken, supervisors, faults>>

\* connect() fails: nil is assigned.
ConnectFails ==
  /\ serve = "connecting"
  /\ IF Listening THEN Fault ELSE UNCHANGED faults
  /\ connection' = None
  /\ serve' = "ended"
  /\ UNCHANGED <<spec, cancel, nodeListener, handlers, net, supervisors>>

\* Seeded fault for CheckCancel: nobody looks at cancel.
CheckCancelNot ==
  /\ serve = "connected"
  /\ serve' = "running"
  /\ Advance("dialer", dialed, {"none"}, "handshake")
  /\ UNCHANGED <<spec, connection, cancel, nodeListener, sender, status, crossed, net, supervisors, faults>>

\* With the lock: a connection that comes after Stop is terminated.
CheckCancel ==
  /\ serve = "connected"
  /\ serve' = "running"
  /\ Advance("dialer", dialed, {"none"}, "handshake")
  /\ open' = IF cancel THEN Closed(dialed, {"dialer"}) ELSE open
  /\ UNCHANGED <<spec, connection, cancel, nodeListener, sender, status, crossed, dialed, shaken, supervisors, faults>>

-----------------------------------------------------------------------------
(* nodeListener.Serve *)

\* The supervisor calls it whenever it has returned.  The goroutine has yet to get
\* the lock, and Stop may come first.
StartListener ==
  /\ loop = "ended"
  /\ HasListener
  /\ "listener" \notin stopping
  /\ loop' = "called"
  /\ UNCHANGED <<spec, connector, listener, abandoned, stopped, handlers, net, supervisors, faults>>

\* Seeded fault for ObeyStop: Serve does not look at stopped.
ListenAnyway ==
  /\ loop = "called" /\ stopped
  /\ ~Listening
  /\ loop' = "accepting" /\ listener' = "open"
  /\ UNCHANGED <<spec, connector, abandoned, stopped, handlers, net, supervisors, faults>>

\* With the lock: a Stop that came before is obeyed once, and forgotten.
ObeyStop ==
  /\ loop = "called" /\ stopped
  /\ loop' = "ended" /\ stopped' = FALSE
  /\ UNCHANGED <<spec, connector, listener, abandoned, handlers, net, supervisors, faults>>

\* With the lock: ListenTCP gets the port.
ListenTCP ==
  /\ loop = "called" /\ ~stopped
  /\ ~Listening
  /\ loop' = "accepting" /\ listener' = "open"
  /\ UNCHANGED <<spec, connector, abandoned, stopped, handlers, net, supervisors, faults>>

\* With the lock: ListenTCP fails, as it does while an old socket has the port, and
\* Serve panics.  The old socket was let go of before that.
ListenFails ==
  /\ loop = "called" /\ ~stopped
  /\ IF Listening THEN UNCHANGED faults ELSE Fault
  /\ loop' = "ended" /\ listener' = "nil" /\ abandoned' = Listening
  /\ UNCHANGED <<spec, connector, stopped, handlers, net, supervisors>>

\* Each connection gets a goroutine.
Accept(c) ==
  /\ loop = "accepting" /\ listener = "open"
  /\ c <= dialed
  /\ Advance("listener", c, {"none"}, "handshake")
  /\ UNCHANGED <<spec, connector, nodeListener, sender, status, crossed, net, supervisors, faults>>

\* The connections nobody accepted go with the socket.
DropWaiting == open' = [c \in Conns |-> IF handler.listener[c] = "none" THEN {} ELSE open[c]]

CloseListener == listener' = "closed" /\ DropWaiting

LoseListener ==
  /\ listener = "open"
  /\ Fault
  /\ CloseListener
  /\ UNCHANGED <<spec, connector, loop, abandoned, stopped, handlers, dialed, shaken, supervisors>>

\* Accept fails, and Serve returns, whether or not it was stopped.
AcceptFails ==
  /\ loop = "accepting" /\ listener = "closed"
  /\ loop' = "ended"
  /\ UNCHANGED <<spec, connector, listener, abandoned, stopped, handlers, net, supervisors, faults>>

\* Accept fails though the socket is in order: Serve returns and does not close it.
AcceptErrs ==
  /\ loop = "accepting" /\ listener = "open"
  /\ Fault
  /\ loop' = "ended"
  /\ UNCHANGED <<spec, connector, listener, abandoned, stopped, handlers, net, supervisors>>

\* Nothing refers to the socket any more.
CollectSocket ==
  /\ abandoned
  /\ abandoned' = FALSE
  /\ DropWaiting
  /\ UNCHANGED <<spec, connector, loop, listener, stopped, handlers, dialed, shaken, supervisors, faults>>

-----------------------------------------------------------------------------
(* The handling of a connection, at both sides: the rest of nodeConnector.Serve,
   and incomingConnection.handleConnection *)

\* The handshakes succeed: the dialer speaks first, the listener answers.
Shake(side, c) ==
  /\ open[c] = Sides
  /\ side = "dialer" => "listener" \in shaken[c]
  /\ side = "listener" => handler.dialer[c] = "handshake"
  /\ Advance(side, c, {"handshake"}, "shaken")
  /\ shaken' = [shaken EXCEPT ![c] = @ \cup {side}]
  /\ UNCHANGED <<spec, connector, nodeListener, sender, status, crossed, dialed, open, supervisors, faults>>

Defined(side) == Node(Other(side)) \in RemoteMailboxes(spec[side], Node(side))

\* registrySync, which needs what the other side sent after its handshakes.
RegistrySync(side, c) ==
  /\ Other(side) \in shaken[c]
  /\ Defined(side)
  /\ Advance(side, c, {"shaken"}, "synced")
  /\ UNCHANGED <<spec, connector, nodeListener, sender, status, crossed, net, supervisors, faults>>

\* Notes that the handler of a newer connection is in one of the phases.
Crosses(side, c, phases) ==
  crossed' = IF \E d \in Conns : d > c /\ handler[side][d] \in phases
             THEN crossed \cup {side} ELSE crossed

SetConnection(side, c) ==
  /\ Advance(side, c, {"synced"}, "set")
  /\ sender' = [sender EXCEPT ![side] = c]
  /\ Crosses(side, c, {"set", "up"})
  /\ UNCHANGED <<spec, connector, nodeListener, status, net, supervisors, faults>>

ReportConnected(side, c) ==
  /\ Advance(side, c, {"set"}, "up")
  /\ status' = [status EXCEPT ![side] = TRUE]
  /\ UNCHANGED <<spec, connector, nodeListener, sender, crossed, net, supervisors, faults>>

\* The loop of handleIncomingMessages ends, and reports it by a deferred call.
EndLoop(side, c) ==
  /\ Advance(side, c, {"up"}, "down")
  /\ status' = [status EXCEPT ![side] = FALSE]
  /\ Crosses(side, c, {"up"})
  /\ UNCHANGED <<spec, connector, nodeListener, sender, net, supervisors, faults>>

\* Because the connection is closed, or because of a message it cannot handle.
Lose(side, c) == open[c] # Sides /\ EndLoop(side, c)

GiveUp(side, c) == open[c] = Sides /\ EndLoop(side, c)

\* What a handler does when it returns: nodeConnector.Serve closes the connection.
Return(side, c, from, closes) ==
  /\ Advance(side, c, from, "over")
  /\ serve' = IF side = "dialer" THEN "ended" ELSE serve
  /\ open' = IF closes THEN Closed(c, {side}) ELSE open
  /\ UNCHANGED <<spec, connection, cancel, nodeListener, status, crossed, dialed, shaken, supervisors, faults>>

\* Seeded fault for UnsetConnection: the dialer does not close the connection.
UnsetConnectionOnly(side, c) ==
  /\ Return(side, c, {"down"}, FALSE)
  /\ sender' = [sender EXCEPT ![side] = IF @ = c THEN None ELSE @]

\* Seeded fault for UnsetConnection: it does not look whose connection it is.
UnsetAnyConnection(side, c) ==
  /\ Return(side, c, {"down"}, side = "dialer")
  /\ sender' = [sender EXCEPT ![side] = None]

\* The deferred unsetConnection.  The listener's end stays open.
UnsetConnection(side, c) ==
  /\ Return(side, c, {"down"}, side = "dialer")
  /\ sender' = [sender EXCEPT ![side] = IF @ = c THEN None ELSE @]

\* A step of the handshakes fails, or registrySync.  The listener panics, recovers
\* and closes if it was the SSL handshake, and just returns otherwise.
HandshakeFails(side, c) ==
  /\ open[c] # Sides
  /\ \E closes \in BOOLEAN :
       /\ side = "dialer" \/ handler.listener[c] = "shaken" => closes = (side = "dialer")
       /\ Return(side, c, {"handshake", "shaken"}, closes)
  /\ UNCHANGED sender

\* The listener has no definition of the node that connects: registrySync or
\* mailboxesForNode panics.
HandlerPanics(c) ==
  /\ "dialer" \in shaken[c]
  /\ ~Defined("listener")
  /\ Return("listener", c, {"shaken"}, TRUE)
  /\ UNCHANGED sender

\* Nothing refers to a connection the listener has left open.
Collect(c) ==
  /\ handler.listener[c] = "over" /\ "listener" \in open[c]
  /\ open' = Closed(c, {"listener"})
  /\ UNCHANGED <<spec, connector, nodeListener, handlers, dialed, shaken, supervisors, faults>>

\* The network breaks a connection.
Break(c) ==
  /\ open[c] # {}
  /\ open' = Closed(c, Sides)
  /\ UNCHANGED <<spec, connector, nodeListener, handlers, dialed, shaken, supervisors, faults>>

-----------------------------------------------------------------------------
(* Stop *)

\* Somebody stops a node's supervisor, which starts nothing any more and calls Stop.
StopNode(side) ==
  /\ side \notin stopping
  /\ Cardinality(stopping) < MaxStops
  /\ stopping' = stopping \cup {side}
  /\ UNCHANGED <<spec, connector, nodeListener, handlers, net, told, missed, faults>>

Told(side) ==
  /\ side \in stopping \ told
  /\ told' = told \cup {side}

\* nodeConnector.Stop.  connection may still be what an earlier Serve left there.
StopConnector ==
  /\ Told("dialer")
  /\ IF connection # None
       THEN /\ open' = Closed(connection, {"dialer"})
            /\ connection' = None
            /\ missed' = (serve = "connecting")
            /\ UNCHANGED cancel
       ELSE cancel' = TRUE /\ UNCHANGED <<open, connection, missed>>
  /\ UNCHANGED <<spec, serve, nodeListener, handlers, dialed, shaken, stopping, faults>>

\* nodeListener.Stop.  The handlers go on.
StopListener ==
  /\ Told("listener")
  /\ stopped' = TRUE
  /\ IF listener # "nil" THEN CloseListener ELSE UNCHANGED <<listener, open>>
  /\ UNCHANGED <<spec, connector, loop, abandoned, handlers, dialed, shaken, stopping, missed, faults>>

-----------------------------------------------------------------------------
Dial == StartConnector \/ Connect \/ ConnectFails \/ CheckCancel

Listen ==
  \/ StartListener \/ ObeyStop \/ ListenTCP \/ ListenFails \/ AcceptFails
  \/ \E c \in Conns : Accept(c)

\* What the goroutine of a handler does by itself.
Handle(side, c) ==
  \/ Shake(side, c) \/ RegistrySync(side, c) \/ SetConnection(side, c)
  \/ ReportConnected(side, c) \/ Lose(side, c) \/ UnsetConnection(side, c)
  \/ HandshakeFails(side, c)
  \/ side = "listener" /\ HandlerPanics(c)

Next ==
  \/ Dial \/ Listen \/ LoseListener \/ AcceptErrs \/ CollectSocket
  \/ \E c \in Conns :
       \/ \E side \in Sides : Handle(side, c) \/ GiveUp(side, c)
       \/ Collect(c) \/ Break(c)
  \/ \E side \in Sides : StopNode(side)
  \/ StopConnector \/ StopListener

Spec == Init /\ [][Next]_vars

(* All goroutines run, the supervisors among them, and abandoned connections and
   sockets are collected; nothing has to fail or to be stopped. *)
FairSpec ==
  /\ Spec
  /\ WF_vars(Dial) /\ WF_vars(Listen)
  /\ \A side \in Sides, c \in Conns : WF_vars(Handle(side, c))
  /\ \A c \in Conns : WF_vars(Collect(c))
  /\ WF_vars(CollectSocket)
  /\ WF_vars(StopConnector) /\ WF_vars(StopListener)

-----------------------------------------------------------------------------
Before == {"none", "over"}
Up(side, c) == handler[side][c] = "up"

\* One Serve has one connection, the newest; a connection is left open at the
\* dialer's end only as long as Serve is at it; Stop may find a connection that Serve
\* has left, never one it has left two before.
OneConnection ==
  /\ \A c \in Conns : handler.dialer[c] \notin Before <=> serve = "running" /\ c = dialed
  /\ serve = "connected" => dialed \in Conns
  /\ \A c \in Conns : "dialer" \in open[c] => c = dialed /\ serve \in {"connected", "running"}
  /\ connection # None => connection = dialed
  /\ cancel => "dialer" \in told
  /\ \A side \in Sides, c \in Conns : c > dialed => handler[side][c] = "none"

\* remoteMailboxes has only connections that are being handled; "connected" was
\* reported of one that is up; and the newest connection has the last word, unless an
\* older one crossed it, which never happens at the dialer.
LastWord ==
  /\ "dialer" \notin crossed
  /\ \A side \in Sides :
       /\ sender[side] # None => handler[side][sender[side]] \in {"set", "up", "down"}
       /\ status[side] => \E c \in Conns : Up(side, c)
       /\ dialed \in Conns /\ side \notin crossed =>
            /\ Up(side, dialed) => status[side]
            /\ handler[side][dialed] \in {"set", "up"} => sender[side] = dialed

LifecycleInv == TypeOK /\ OneConnection /\ LastWord

\* Once the handlers of a node are at rest, its callbacks have heard last what is
\* the case, and remoteMailboxes can send just then.  Only at the listener can an
\* old handler come later than a newer one, set its dead connection or report its
\* loss.
StatusIsTrue == \A side \in Sides :
  (\A c \in Conns : handler[side][c] \in Before \/ (Up(side, c) /\ open[c] = Sides)) =>
     \/ status[side] = (\E c \in Conns : Up(side, c)) /\ status[side] = (sender[side] # None)
     \/ side = "listener" /\ side \in crossed

\* Out of connections: where the bound ends a behaviour.
Exhausted == serve = "connecting" /\ dialed = MaxConns

\* When the supervisor stops, the connector's Serve ends wherever Stop finds it,
\* unless that finds the connection of an earlier Serve while the next one is dialing.
StopEndsConnector == "dialer" \in stopping ~> serve = "ended" \/ missed \/ Exhausted

\* When the supervisor stops, the listener's Serve ends, whether Stop comes before it
\* has the lock, while it accepts or after an Accept has failed.
StopEndsListener == "listener" \in stopping ~> [](loop = "ended")

\* Two nodes whose specifications are accepted and have the other node, whatever
\* else is in them, get connected, and again after every failure, unless stopped.
Reconnects == <>[](
  /\ stopping = {}
  /\ \A side \in Sides : Accepts(spec[side], Node(side)) /\ Node(Other(side)) \in Nodes(spec[side])
  =>
  \E c \in Conns :
    \/ c = dialed /\ Up("dialer", c) /\ Up("listener", c) /\ open[c] = Sides
    \/ c = MaxConns /\ dialed = c /\ open[c] # Sides)
=============================================================================

---------------------------- MODULE RegistrySync ----------------------------
(***************************************************************************)
(* How one node learns the claims of another.  The owner's registry sends  *)
(* every change of its claims to the viewer's, through the mailbox of its  *)
(* remoteMailboxes and the connection; the goroutine of each connection    *)
(* sends all claims once, past that mailbox.  At the viewer the first go   *)
(* through the mailbox of remoteMailboxes again, the second do not.        *)
(*                                                                         *)
(* Each of two nodes is owner to the other; the two directions share no    *)
(* claims, so one is modelled, whichever side dials.  A dialer has one     *)
(* handler at a time; a listener one per connection, old ones included.    *)
(*                                                                         *)
(* The mailboxes of the registries are left out: what waits there is as    *)
(* good as still to come, since nobody looks at the claims meanwhile.  The *)
(* exception is the owner's notice of a loss, which the next connection    *)
(* can overtake.                                                           *)
(***************************************************************************)
EXTENDS Naturals, FiniteSets, Sequences, SequencesExt

CONSTANTS
  Claims,     \* <<name, mailbox>> pairs the owner may register
  Dialers,    \* which side may be the one that dials
  MaxConns,   \* bound: connections
  MaxCalls    \* bound: calls of Register and Unregister

Sides == {"owner", "viewer"}
Conns == 1..MaxConns
None == 0

ASSUME RegistrySyncAssumption ==
  /\ IsFiniteSet(Claims)
  /\ Dialers \subseteq Sides
  /\ MaxConns \in Nat /\ MaxCalls \in Nat

VARIABLES
  claims,          \* owner: its own claims
  nodeRegistries,  \* owner: whether the viewer is in the map
  losses,          \* owner: connections whose loss its registry has not handled
  owed,            \* owner: the broadcast Serve still owes after a change
  outbox,          \* owner: the mailbox of its remoteMailboxes
  connection,      \* owner: remoteMailboxes.connection
  snapshot,        \* owner: of each connection, the claims about to be sent
  view,            \* viewer: the owner's claims in its registry
  arriving,        \* viewer: the mailbox of its remoteMailboxes
  handler,         \* of each side: how far each connection's goroutine is
  dialer,          \* the side that dials
  dialed,          \* connections made so far
  broken,          \* those that deliver nothing any more
  wire,            \* of each connection: what the viewer has not read
  races,           \* history: the races that happened, of those named below
  seen,            \* history: the newest connection of which the viewer handled a message
  held,            \* history: how many in outbox are older than the last loss handled
  calls

maps == <<claims, nodeRegistries, losses, owed>>
owner == <<maps, outbox, connection, snapshot>>
viewer == <<view, arriving>>
net == <<dialer, dialed, broken>>
history == <<races, seen, held>>
vars == <<owner, viewer, handler, net, wire, history, calls>>

\* A broadcast carries one claim; conn, which the code does not have, says by
\* which connection it came.
Broadcasts == [type : {"RegisterName", "UnregisterName"}, claim : Claims]
Arrived == [type : {"RegisterName", "UnregisterName"}, claim : Claims, conn : Conns]
Snapshots == [type : {"AllNodeClaims"}, claims : SUBSET Claims, conn : Conns]

\* The steps of a handler: handshakes, addNodeRegistry, setConnection, the
\* snapshot, its sending and the loop, the end.
Phases == {"handshake", "known", "set", "snapshot", "reading", "over"}

\* The ways in which a view can go wrong:
\*   overtaken  an UnregisterName is sent before a snapshot that still has the claim
\*   outdated   a broadcast queued before a loss is sent on the next connection
\*   late       a broadcast is handled when the loss of its connection already was
\*   undone     a loss is handled when the next connection is up already (an old
\*              handler may even have set its connection after the newer one did)
Races == {"overtaken", "outdated", "late", "undone"}

TypeOK ==
  /\ claims \subseteq Claims /\ view \subseteq Claims
  /\ nodeRegistries \in BOOLEAN
  /\ losses \subseteq Conns
  /\ owed \subseteq Broadcasts
  /\ outbox \in Seq(Broadcasts)
  /\ connection \in Conns \cup {None}
  /\ snapshot \in [Conns -> SUBSET Claims]
  /\ arriving \in Seq(Arrived)
  /\ handler \in [Sides -> [Conns -> Phases]]
  /\ dialer \in Sides /\ dialed \in 0..MaxConns /\ broken \subseteq Conns
  /\ wire \in [Conns -> Seq(Arrived \cup Snapshots)]
  /\ races \subseteq Races /\ seen \in 0..MaxConns /\ held \in 0..Len(outbox)
  /\ calls \in 0..MaxCalls

Init ==
  /\ claims = {} /\ view = {}
  /\ nodeRegistries = FALSE
  /\ losses = {} /\ owed = {}
  /\ outbox = <<>> /\ arriving = <<>>
  /\ connection = None
  /\ snapshot = [c \in Conns |-> {}]
  /\ handler = [side \in Sides |-> [c \in Conns |-> "handshake"]]
  /\ dialer \in Dialers
  /\ dialed = 0
  /\ broken = {}
  /\ wire = [c \in Conns |-> <<>>]
  /\ races = {} /\ seen = None /\ held = 0
  /\ calls = 0

Advance(side, c, from, to) ==
  /\ c <= dialed
  /\ handler[side][c] = from
  /\ handler' = [handler EXCEPT ![side][c] = to]

\* Happens(race, TRUE) notes a race.
Happens(race, condition) == races' = IF condition THEN races \cup {race} ELSE races

\* What a write on connection c adds to the wire; on a broken one it is lost.
Write(c, m) ==
  wire' = IF c \in broken THEN wire ELSE [wire EXCEPT ![c] = Append(@, m)]

-----------------------------------------------------------------------------
(* The owner's registry *)

\* A call changes the claims; Serve owes the broadcast.
Change(claim, type) ==
  /\ owed = {}
  /\ calls < MaxCalls
  /\ calls' = calls + 1
  /\ owed' = {[type |-> type, claim |-> claim]}
  /\ UNCHANGED <<nodeRegistries, losses, outbox, connection, snapshot, viewer, handler, net, wire, history>>

Register(claim) == Change(claim, "RegisterName") /\ claims' = claims \cup {claim}

Unregister(claim) == Change(claim, "UnregisterName") /\ claims' = claims \ {claim}

\* toOtherNodes: to the mailbox of the viewer's remoteMailboxes, if the viewer is known.
Broadcast == \E m \in owed :
  /\ owed' = {}
  /\ outbox' = IF nodeRegistries THEN Append(outbox, m) ELSE outbox
  /\ UNCHANGED <<claims, nodeRegistries, losses, connection, snapshot, viewer, handler, net, wire, history, calls>>

\* handleConnectionStatus: the viewer is forgotten, even if it is back already.
ForgetViewer(c) ==
  /\ owed = {}
  /\ c \in losses
  /\ losses' = losses \ {c}
  /\ nodeRegistries' = FALSE
  /\ Happens("undone", \E d \in Conns : d > c /\ handler.owner[d] # "handshake")
  /\ held' = Len(outbox)
  /\ UNCHANGED <<claims, owed, outbox, connection, snapshot, viewer, handler, net, wire, seen, calls>>

-----------------------------------------------------------------------------
(* The owner's remoteMailboxes and connections *)

Overtakes(m, c) ==
  m.type = "UnregisterName" /\ handler.owner[c] = "snapshot" /\ m.claim \in snapshot[c]

\* remoteMailboxes.Serve sends the next broadcast on its connection, or has none.
Transmit ==
  /\ outbox # <<>>
  /\ outbox' = Tail(outbox)
  /\ held' = IF held > 0 THEN held - 1 ELSE 0
  /\ IF connection = None
       THEN UNCHANGED <<wire, races>>
       ELSE LET m == Head(outbox)
            IN /\ Write(connection, [type |-> m.type, claim |-> m.claim, conn |-> connection])
               /\ races' = races
                    \cup {race \in {"overtaken"} : Overtakes(m, connection)}
                    \cup {race \in {"outdated"} : held > 0}
  /\ UNCHANGED <<maps, connection, snapshot, viewer, handler, net, seen, calls>>

\* Seeded fault for AddNodeRegistry: the viewer is not registered again.
AddNodeRegistryOnce(c) ==
  /\ Advance("owner", c, "handshake", "known")
  /\ nodeRegistries' = (nodeRegistries \/ c = 1)
  /\ UNCHANGED <<claims, losses, owed, outbox, connection, snapshot, viewer, net, wire, history, calls>>

\* registrySync: the handshakes are done, and the viewer is registered.
AddNodeRegistry(c) ==
  /\ Advance("owner", c, "handshake", "known")
  /\ nodeRegistries' = TRUE
  /\ UNCHANGED <<claims, losses, owed, outbox, connection, snapshot, viewer, net, wire, history, calls>>

SetConnection(c) ==
  /\ Advance("owner", c, "known", "set")
  /\ connection' = c
  /\ UNCHANGED <<maps, outbox, snapshot, viewer, net, wire, history, calls>>

\* generateAllNodeClaims
TakeSnapshot(c) ==
  /\ Advance("owner", c, "set", "snapshot")
  /\ snapshot' = [snapshot EXCEPT ![c] = claims]
  /\ UNCHANGED <<maps, outbox, connection, viewer, net, wire, history, calls>>

\* Seeded fault for SendSnapshot: claims are sent when the nodes first meet only.
SendSnapshotOnce(c) ==
  /\ Advance("owner", c, "snapshot", "reading")
  /\ Write(c, [type |-> "AllNodeClaims", claims |-> IF c = 1 THEN snapshot[c] ELSE {}, conn |-> c])
  /\ snapshot' = [snapshot EXCEPT ![c] = {}]
  /\ UNCHANGED <<maps, outbox, connection, viewer, net, history, calls>>

\* "Send our registry claims."
SendSnapshot(c) ==
  /\ Advance("owner", c, "snapshot", "reading")
  /\ Write(c, [type |-> "AllNodeClaims", claims |-> snapshot[c], conn |-> c])
  /\ snapshot' = [snapshot EXCEPT ![c] = {}]
  /\ UNCHANGED <<maps, outbox, connection, viewer, net, history, calls>>

\* Seeded fault for OwnerEnds: unsetConnection is not deferred.
OwnerEndsKeepsConnection(c) ==
  /\ c \in broken
  /\ Advance("owner", c, "reading", "over")
  /\ losses' = losses \cup {c}
  /\ UNCHANGED <<claims, nodeRegistries, owed, outbox, connection, snapshot, viewer, net, wire, history, calls>>

\* The loop ends: the deferred report, then the deferred unsetConnection; what is
\* sent in between is lost as well.
OwnerEnds(c) ==
  /\ c \in broken
  /\ Advance("owner", c, "reading", "over")
  /\ losses' = losses \cup {c}
  /\ connection' = IF connection = c THEN None ELSE connection
  /\ UNCHANGED <<claims, nodeRegistries, owed, outbox, snapshot, viewer, net, wire, history, calls>>

-----------------------------------------------------------------------------
(* The viewer *)

\* Handshakes and registrySync, up to the loop.
StartReading(c) ==
  /\ Advance("viewer", c, "handshake", "reading")
  /\ UNCHANGED <<owner, viewer, net, wire, history, calls>>

\* The registry hears of connection c.
Hears(c) == seen' = IF c > seen THEN c ELSE seen

\* The next message of connection c is read.
Read(c) ==
  /\ handler.viewer[c] = "reading"
  /\ wire[c] # <<>>
  /\ wire' = [wire EXCEPT ![c] = Tail(@)]
  /\ UNCHANGED <<owner, handler, net, races, held, calls>>

\* AllNodeClaims goes to the registry at once.
ReadAllNodeClaims(c) ==
  /\ Read(c)
  /\ Head(wire[c]).type = "AllNodeClaims"
  /\ view' = view \cup Head(wire[c]).claims
  /\ Hears(c)
  /\ UNCHANGED arriving

\* Anything else goes to remoteMailboxes.
ReadBroadcast(c) ==
  /\ Read(c)
  /\ Head(wire[c]).type # "AllNodeClaims"
  /\ arriving' = Append(arriving, Head(wire[c]))
  /\ UNCHANGED <<view, seen>>

\* remoteMailboxes.Serve passes a message on to the registry.
Forward(m) ==
  /\ arriving # <<>> /\ m = Head(arriving)
  /\ arriving' = Tail(arriving)
  /\ Hears(m.conn)
  /\ Happens("late", handler.viewer[m.conn] = "over")
  /\ UNCHANGED <<owner, handler, net, wire, held, calls>>

HandleRegisterName(m) ==
  Forward(m) /\ m.type = "RegisterName" /\ view' = view \cup {m.claim}

HandleUnregisterName(m) ==
  Forward(m) /\ m.type = "UnregisterName" /\ view' = view \ {m.claim}

\* The loop ends and reports the loss: all claims of the owner go, those that came
\* by a newer connection too.  What was not read is lost.
HandleDisconnected(c) ==
  /\ c \in broken
  /\ Advance("viewer", c, "reading", "over")
  /\ view' = {}
  /\ wire' = [wire EXCEPT ![c] = <<>>]
  /\ Happens("undone", seen > c)
  /\ UNCHANGED <<owner, arriving, net, seen, held, calls>>

-----------------------------------------------------------------------------
(* The network *)

\* The dialer's Serve runs again when its last handler has ended.
Dial ==
  /\ dialed < MaxConns
  /\ dialed > 0 => handler[dialer][dialed] = "over"
  /\ dialed' = dialed + 1
  /\ UNCHANGED <<owner, viewer, handler, dialer, broken, wire, history, calls>>

Break(c) ==
  /\ c <= dialed /\ c \notin broken
  /\ broken' = broken \cup {c}
  /\ UNCHANGED <<owner, viewer, handler, dialer, dialed, wire, history, calls>>

\* A handshake fails: the handler ends and has changed nothing.
HandshakeFails(side, c) ==
  /\ c \in broken
  /\ Advance(side, c, "handshake", "over")
  /\ wire' = IF side = "viewer" THEN [wire EXCEPT ![c] = <<>>] ELSE wire
  /\ UNCHANGED <<owner, viewer, net, history, calls>>

-----------------------------------------------------------------------------
OwnerServe == Broadcast \/ \E c \in Conns : ForgetViewer(c)

OwnerHandler(c) ==
  AddNodeRegistry(c) \/ SetConnection(c) \/ TakeSnapshot(c) \/ SendSnapshot(c) \/ OwnerEnds(c)

ViewerServe == \E m \in ToSet(arriving) : HandleRegisterName(m) \/ HandleUnregisterName(m)

ViewerHandler(c) ==
  StartReading(c) \/ ReadAllNodeClaims(c) \/ ReadBroadcast(c) \/ HandleDisconnected(c)

Next ==
  \/ \E claim \in Claims : Register(claim) \/ Unregister(claim)
  \/ OwnerServe \/ Transmit \/ ViewerServe
  \/ Dial
  \/ \E c \in Conns :
       \/ OwnerHandler(c) \/ ViewerHandler(c) \/ Break(c)
       \/ \E side \in Sides : HandshakeFails(side, c)

Spec == Init /\ [][Next]_vars

(* All goroutines run; nobody has to call, to dial or to break a connection. *)
FairSpec ==
  /\ Spec
  /\ WF_vars(OwnerServe) /\ WF_vars(Transmit) /\ WF_vars(ViewerServe)
  /\ \A c \in Conns : WF_vars(OwnerHandler(c)) /\ WF_vars(ViewerHandler(c))

-----------------------------------------------------------------------------
\* remoteMailboxes never sends on a connection whose handler has ended, and a
\* handler has nothing to send before its snapshot or after.
ConnectionLives ==
  /\ connection # None => handler.owner[connection] \in {"set", "snapshot", "reading"}
  /\ \A c \in Conns : snapshot[c] # {} => handler.owner[c] = "snapshot"
  /\ \A c \in Conns : c > dialed => \A side \in Sides : handler[side][c] = "handshake"

\* What comes before what: a handler ends when its connection is broken; the owner
\* sends nothing before setConnection, the viewer hears nothing before its loop; all
\* connections but the newest are broken.
InOrder ==
  /\ \A side \in Sides, c \in Conns : handler[side][c] = "over" => c \in broken
  /\ broken \subseteq 1..dialed
  /\ \A c \in Conns : c < dialed => c \in broken
  /\ \A c \in losses : handler.owner[c] = "over"
  /\ \A c \in Conns : handler.viewer[c] \in {"handshake", "reading", "over"}
  /\ \A c \in Conns : handler.owner[c] \in {"handshake", "known"} =>
       wire[c] = <<>> /\ seen # c /\ \A i \in DOMAIN arriving : arriving[i].conn # c
  /\ \A i \in DOMAIN arriving : handler.viewer[arriving[i].conn] # "handshake"
  /\ \A c \in Conns : \A i \in DOMAIN wire[c] : wire[c][i].conn = c

\* A change is broadcast before the next; a viewer that is known has a handler, or its
\* loss is to be handled; and the owner queues nothing for one that is not known.
OwesTruth ==
  /\ \A m \in owed : owed = {m} /\ (m.type = "RegisterName" <=> m.claim \in claims)
  /\ nodeRegistries => \E c \in Conns : c \in losses \/ handler.owner[c] \notin {"handshake", "over"}
  /\ ~nodeRegistries => held = Len(outbox)

\* What the viewer knows, it knows by a connection it is still reading.
ViewHasReader ==
  races \subseteq {"overtaken"} /\ view # {} =>
    \E c \in Conns : c <= seen /\ handler.viewer[c] = "reading"

-----------------------------------------------------------------------------
(* What is on its way to the viewer about claim p, by connection c *)

InOwed(p) == {m \in owed : m.claim = p}
InOutbox(p) == {i \in DOMAIN outbox : i > held /\ outbox[i].claim = p}
InWire(c, p) == {i \in DOMAIN wire[c] : wire[c][i].type # "AllNodeClaims" /\ wire[c][i].claim = p}
InArriving(c, p) == {i \in DOMAIN arriving : arriving[i].conn = c /\ arriving[i].claim = p}

Unsent(p) == InOwed(p) # {} \/ InOutbox(p) # {}
Snapshot(c, i) == wire[c][i].type = "AllNodeClaims"

\* The last of the broadcasts at these places of a queue says whether a claim holds.
LastSays(queue, places, holds) == \A i \in places :
  (\A j \in places : j <= i) => (queue[i].type = "RegisterName" <=> holds)

\* The last broadcast about p that was not handled is true.
NewsIsTrue(c, p) ==
  /\ InOwed(p) = {} => LastSays(outbox, InOutbox(p), p \in claims)
  /\ ~Unsent(p) => LastSays(wire[c], InWire(c, p), p \in claims)
  /\ ~Unsent(p) /\ InWire(c, p) = {} => LastSays(arriving, InArriving(c, p), p \in claims)

\* p is in the view, or in a snapshot that will be.
Coming(c, p) ==
  \/ seen = c /\ p \in view
  \/ handler.owner[c] = "snapshot" /\ p \in snapshot[c]
  \/ \E i \in DOMAIN wire[c] : Snapshot(c, i) /\ p \in wire[c][i].claims

\* When no broadcast is left, snapshots and view tell the truth.
RestIsTrue(c, p) ==
  ~Unsent(p) /\ InWire(c, p) = {} /\ InArriving(c, p) = {} =>
    /\ handler.owner[c] \in {"snapshot", "reading"} /\ p \in claims => Coming(c, p)
    /\ races = {} /\ Coming(c, p) => p \in claims

\* A snapshot with a claim that is gone is followed by news of that claim.
SnapshotIsCorrected(c, p) ==
  races = {} /\ p \notin claims =>
    /\ handler.owner[c] = "snapshot" /\ p \in snapshot[c] => Unsent(p)
    /\ \A i \in DOMAIN wire[c] : Snapshot(c, i) /\ p \in wire[c][i].claims =>
         Unsent(p) \/ \E j \in InWire(c, p) : j > i

AllIsTrue(c, p) == NewsIsTrue(c, p) /\ RestIsTrue(c, p) /\ SnapshotIsCorrected(c, p)

\* Connection c is the newest one, the owner is past addNodeRegistry, and it has
\* done with all older ones.
OwnerSettled(c) ==
  /\ c = dialed /\ c \notin broken /\ handler.owner[c] # "handshake"
  /\ \A d \in Conns : d < c => handler.owner[d] \in {"handshake", "over"} /\ d \notin losses

\* If the viewer hears by c, it has done with all older ones.
ViewerSettled(c) ==
  seen = c => \A d \in Conns : d < c => handler.viewer[d] \in {"handshake", "over"}

\* All that is known of every claim, and all that is on its way, put together are the
\* owner's claims.
Delivers(c) ==
  /\ nodeRegistries
  /\ handler.owner[c] # "known" => connection = c
  /\ ViewerSettled(c) => \A p \in Claims : AllIsTrue(c, p)

\* They stay so until one of the races happens.
StreamIsTrue == \A c \in Conns : OwnerSettled(c) /\ races \subseteq {"overtaken"} => Delivers(c)

\* The types; that remoteMailboxes lets go of a connection when it ends, in whatever
\* order the handlers of old and new ones run; and what makes the nodes agree.
SyncInv == TypeOK /\ ConnectionLives /\ InOrder /\ OwesTruth /\ ViewHasReader /\ StreamIsTrue

-----------------------------------------------------------------------------
(* When the nodes agree *)

\* Connection c is up at both sides, no other is, and everything sent was handled.
Quiet(c) ==
  /\ c \notin broken
  /\ \A side \in Sides : handler[side][c] = "reading"
  /\ \A side \in Sides, d \in 1..dialed : d # c => handler[side][d] = "over"
  /\ owed = {} /\ losses = {} /\ outbox = <<>> /\ wire[c] = <<>> /\ arriving = <<>>

\* When everything sent was handled, the view is the owner's claims, unless one of
\* the four races happened; and if only broadcasts overtook snapshots, it has no
\* claim too few.
ViewsAgree == \A c \in Conns : Quiet(c) =>
  /\ races = {} => view = claims
  /\ races \subseteq {"overtaken"} => claims \subseteq view

\* A connection that stays up brings the two together, whatever connections there
\* were before it, unless one of the races happened.
EventuallyAgree ==
  <>[](dialed > 0 /\ dialed \notin broken /\ races = {} => view = claims)
=============================================================================

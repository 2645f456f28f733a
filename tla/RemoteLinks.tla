----------------------------- MODULE RemoteLinks -----------------------------
(***************************************************************************)
(* Links to mailboxes of another node: OnCloseNotify and RemoveNotify of a *)
(* boundRemoteAddress, the remoteMailboxes of both nodes, and connections  *)
(* that break and are made again.                                          *)
(*                                                                         *)
(* Every node runs the whole of remoteMailboxes.Serve; here one side,      *)
(* "near", has the mailboxes that ask for notices and the other, "far",    *)
(* those that are asked.  The two directions share the queue and the       *)
(* connection and nothing else.  On a side one goroutine runs Serve, and   *)
(* one per connection reads what the other side sent.  What the far        *)
(* mailboxes do with a link is CloseNotify.tla, taken as one step here.    *)
(***************************************************************************)
EXTENDS Naturals, FiniteSets, Sequences, SequencesExt

CONSTANTS
  Local,      \* mailboxes of the near side
  Remote,     \* mailboxes of the far side
  Dialers,    \* which side may have the nodeConnector; the other has the listener
  MaxConns,   \* bound: connections made in all
  MaxCalls    \* bound: calls of OnCloseNotify, RemoveNotify and Close in all

Sides == {"near", "far"}
Conns == 1..MaxConns
None == 0     \* a nil connection

ASSUME RemoteLinksAssumption == Dialers \subseteq Sides /\ MaxConns \in Nat /\ MaxCalls \in Nat

VARIABLES
  links,      \* near: linksToRemote, the local mailboxes linked to each remote one
  notify,     \* far: the mailboxes that have remoteMailboxes on their list
  closed,     \* far: the closed mailboxes
  box,        \* of each side: the queue of the mailbox Serve receives from
  connection, \* of each side: remoteMailboxes.connection
  handler,    \* of each side and connection: not yet set up, running, or over
  wire,       \* of each connection: what travels to each side
  dialer,     \* the side that dials
  broken,     \* connections that do not carry anything any more
  dialed,     \* how many connections were made
  asked,      \* history: the <<local, remote>> that want a notice
  told,       \* history: those that got one since they asked
  lost,       \* history: whether a request or a notice was lost on its way
  overtaken,  \* history: whether a request was read before an older removal
  latest,     \* history: the connection each side set last
  calls       \* calls so far

net == <<connection, handler, dialer, broken, dialed, latest>>
history == <<asked, told, lost, overtaken>>
vars == <<links, notify, closed, box, net, wire, history, calls>>

Pairs == Local \X Remote

\* The messages Serve receives and what they are on the wire.
NearMessages == [type : {"NotifyRemote", "UnnotifyRemote"}, local : Local, remote : Remote]
ToFar == [type : {"NotifyNodeOnTerminate", "RemoveNotifyNodeOnClose"}, remote : Remote]
ToNear == [type : {"RemoteMailboxClosed"}, remote : Remote]
FarMessages == [type : {"MailboxClosed"}, remote : Remote]
Notify(l, r) == [type |-> "NotifyRemote", local |-> l, remote |-> r]
Unnotify(l, r) == [type |-> "UnnotifyRemote", local |-> l, remote |-> r]
Ask(r) == [type |-> "NotifyNodeOnTerminate", remote |-> r]
TakeBack(r) == [type |-> "RemoveNotifyNodeOnClose", remote |-> r]
OnWire == [near |-> ToNear, far |-> ToFar]
InBox == [near |-> NearMessages \cup ToNear, far |-> FarMessages \cup ToFar]
Messages == NearMessages \cup FarMessages \cup ToNear \cup ToFar

TypeOK ==
  /\ links \in [Remote -> SUBSET Local]
  /\ notify \subseteq Remote
  /\ closed \subseteq Remote
  /\ box \in [Sides -> Seq(Messages)] /\ \A side \in Sides : box[side] \in Seq(InBox[side])
  /\ connection \in [Sides -> Conns \cup {None}]
  /\ handler \in [Sides -> [Conns -> {"none", "running", "over"}]]
  /\ wire \in [Conns -> [Sides -> Seq(Messages)]]
  /\ \A c \in Conns, side \in Sides : wire[c][side] \in Seq(OnWire[side])
  /\ dialer \in Sides
  /\ broken \subseteq Conns
  /\ dialed \in 0..MaxConns
  /\ asked \subseteq Pairs
  /\ told \subseteq Pairs
  /\ lost \in BOOLEAN
  /\ overtaken \in BOOLEAN
  /\ latest \in [Sides -> Conns \cup {None}]
  /\ calls \in 0..MaxCalls

Init ==
  /\ links = [r \in Remote |-> {}]
  /\ notify = {}
  /\ closed = {}
  /\ box = [side \in Sides |-> <<>>]
  /\ connection = [side \in Sides |-> None]
  /\ handler = [side \in Sides |-> [c \in Conns |-> "none"]]
  /\ wire = [c \in Conns |-> [side \in Sides |-> <<>>]]
  /\ dialer \in Dialers
  /\ broken = {}
  /\ dialed = 0
  /\ asked = {}
  /\ told = {}
  /\ lost = FALSE
  /\ overtaken = FALSE
  /\ latest = [side \in Sides |-> None]
  /\ calls = 0

Other(side) == IF side = "near" THEN "far" ELSE "near"

\* Losing one of these can leave somebody without a notice.
Matters(m) == m.type \in {"NotifyNodeOnTerminate", "RemoteMailboxClosed"}

-----------------------------------------------------------------------------
(* remoteMailboxes.send *)

Transmit(side, m) ==
  /\ connection[side] \notin broken \cup {None}
  /\ wire' = [wire EXCEPT ![connection[side]][Other(side)] = Append(@, m)]
  /\ UNCHANGED lost

\* The connection is broken and Encode does not notice.
Vanish(side, m) ==
  /\ connection[side] \in broken
  /\ lost' = (lost \/ Matters(m))
  /\ UNCHANGED wire

\* There is no connection, or Encode fails (after the retry it makes when the
\* error is temporary).
SendFails(side) == connection[side] \in broken \cup {None}

\* A send whose error is ignored.
Send(side, m) ==
  \/ Transmit(side, m)
  \/ Vanish(side, m)
  \/ /\ SendFails(side)
     /\ lost' = (lost \/ Matters(m))
     /\ UNCHANGED wire

-----------------------------------------------------------------------------
(* The mailboxes *)

Call ==
  /\ calls < MaxCalls
  /\ calls' = calls + 1
  /\ UNCHANGED <<links, net, wire, lost, overtaken>>

\* boundRemoteAddress.onCloseNotify
OnCloseNotify(l, r) ==
  /\ Call
  /\ box' = [box EXCEPT !.near = Append(@, Notify(l, r))]
  /\ asked' = asked \cup {<<l, r>>}
  /\ told' = told \ {<<l, r>>}
  /\ UNCHANGED <<notify, closed>>

\* boundRemoteAddress.removeNotify
RemoveNotify(l, r) ==
  /\ Call
  /\ box' = [box EXCEPT !.near = Append(@, Unnotify(l, r))]
  /\ asked' = asked \ {<<l, r>>}
  /\ UNCHANGED <<notify, closed, told>>

\* A mailbox of the far side closes and tells remoteMailboxes if it is linked.
Close(r) ==
  /\ Call
  /\ r \notin closed
  /\ closed' = closed \cup {r}
  /\ notify' = notify \ {r}
  /\ box' = IF r \in notify
              THEN [box EXCEPT !.far = Append(@, [type |-> "MailboxClosed", remote |-> r])]
              ELSE box
  /\ UNCHANGED <<asked, told>>

-----------------------------------------------------------------------------
(* remoteMailboxes.Serve of the near side *)

\* Serve receives m.
Receive(side, m, type) ==
  /\ box[side] # <<>> /\ m = Head(box[side])
  /\ m.type = type
  /\ box' = [box EXCEPT ![side] = Tail(@)]

Tell(pairs) == told' = told \cup pairs

\* Not the first link to this mailbox, or the same one again: nothing is sent.
NotifyMore(m) ==
  /\ Receive("near", m, "NotifyRemote")
  /\ links[m.remote] # {}
  /\ links' = [links EXCEPT ![m.remote] = @ \cup {m.local}]
  /\ UNCHANGED <<notify, closed, net, wire, history, calls>>

\* The first one: ask the other node.
NotifyFirst(m) ==
  /\ Receive("near", m, "NotifyRemote")
  /\ links[m.remote] = {}
  /\ Transmit("near", Ask(m.remote)) \/ Vanish("near", Ask(m.remote))
  /\ links' = [links EXCEPT ![m.remote] = {m.local}]
  /\ UNCHANGED <<notify, closed, net, asked, told, overtaken, calls>>

\* It cannot be asked: tell the one that wants the link that the mailbox is closed
\* and panic.  The deferred function tells all who are linked to any mailbox of the
\* node the same, forgets the links and terminates the connection.  The supervisor
\* starts Serve again.
NotifyFails(m) ==
  /\ Receive("near", m, "NotifyRemote")
  /\ links[m.remote] = {}
  /\ SendFails("near")
  /\ Tell({<<m.local, m.remote>>} \cup {p \in Pairs : p[1] \in links[p[2]]})
  /\ links' = [r \in Remote |-> {}]
  /\ broken' = broken \cup ({connection["near"]} \ {None})
  /\ UNCHANGED <<notify, closed, connection, handler, dialer, dialed, latest, wire, asked, lost, overtaken, calls>>

\* Seeded fault for UnnotifyMore: the other node is told of every removal.
UnnotifyMoreTells(m) ==
  /\ Receive("near", m, "UnnotifyRemote")
  /\ links[m.remote] # {m.local}
  /\ links' = [links EXCEPT ![m.remote] = @ \ {m.local}]
  /\ Send("near", TakeBack(m.remote))
  /\ UNCHANGED <<notify, closed, net, asked, told, overtaken, calls>>

\* Nobody is linked to this mailbox, or others still are.
UnnotifyMore(m) ==
  /\ Receive("near", m, "UnnotifyRemote")
  /\ links[m.remote] # {m.local}
  /\ links' = [links EXCEPT ![m.remote] = @ \ {m.local}]
  /\ UNCHANGED <<notify, closed, net, wire, history, calls>>

\* The last link goes: tell the other node if that is possible.
UnnotifyLast(m) ==
  /\ Receive("near", m, "UnnotifyRemote")
  /\ links[m.remote] = {m.local}
  /\ links' = [links EXCEPT ![m.remote] = {}]
  /\ Send("near", TakeBack(m.remote))
  /\ UNCHANGED <<notify, closed, net, asked, told, overtaken, calls>>

\* The mailbox was closed: tell all who are linked to it, and forget them.
HandleRemoteMailboxClosed(m) ==
  /\ Receive("near", m, "RemoteMailboxClosed")
  /\ Tell(links[m.remote] \X {m.remote})
  /\ links' = [links EXCEPT ![m.remote] = {}]
  /\ UNCHANGED <<notify, closed, net, wire, asked, lost, overtaken, calls>>

-----------------------------------------------------------------------------
(* remoteMailboxes.Serve of the far side *)

\* OnCloseNotify(rm.Address) on an open mailbox ...
Subscribe(m) ==
  /\ Receive("far", m, "NotifyNodeOnTerminate")
  /\ m.remote \notin closed
  /\ notify' = notify \cup {m.remote}
  /\ UNCHANGED <<links, closed, net, wire, history, calls>>

\* Seeded fault for SubscribeLate: noMailbox does not answer.
SubscribeLateSilently(m) ==
  /\ Receive("far", m, "NotifyNodeOnTerminate")
  /\ m.remote \in closed
  /\ UNCHANGED <<links, notify, closed, net, wire, history, calls>>

\* Seeded fault for SubscribeLate: the answer is given without a look at closed.
SubscribeAnswered(m) ==
  /\ box.far # <<>> /\ m = Head(box.far)
  /\ m.type = "NotifyNodeOnTerminate"
  /\ box' = [box EXCEPT !.far = Append(Tail(@), [type |-> "MailboxClosed", remote |-> m.remote])]
  /\ UNCHANGED <<links, notify, closed, net, wire, history, calls>>

\* ... and on a closed one, which answers at once.
SubscribeLate(m) ==
  /\ box.far # <<>> /\ m = Head(box.far)
  /\ m.type = "NotifyNodeOnTerminate"
  /\ m.remote \in closed
  /\ box' = [box EXCEPT !.far = Append(Tail(@), [type |-> "MailboxClosed", remote |-> m.remote])]
  /\ UNCHANGED <<links, notify, closed, net, wire, history, calls>>

\* RemoveNotify(rm.Address)
Unsubscribe(m) ==
  /\ Receive("far", m, "RemoveNotifyNodeOnClose")
  /\ notify' = notify \ {m.remote}
  /\ UNCHANGED <<links, closed, net, wire, history, calls>>

\* A mailbox here was closed: pass it on, if there is a connection.
HandleMailboxClosed(m) ==
  /\ Receive("far", m, "MailboxClosed")
  /\ Send("far", [type |-> "RemoteMailboxClosed", remote |-> m.remote])
  /\ UNCHANGED <<links, notify, closed, net, asked, told, overtaken, calls>>

-----------------------------------------------------------------------------
(* Connections *)

\* nodeConnector.Serve starts over once it has returned.
Dial ==
  /\ dialed < MaxConns
  /\ \A c \in 1..dialed : handler[dialer][c] = "over"
  /\ dialed' = dialed + 1
  /\ UNCHANGED <<links, notify, closed, box, connection, handler, dialer, latest, wire, broken, history, calls>>

\* A side is through with the handshakes: setConnection.  The listener has a
\* goroutine per connection; nothing orders them.
SetConnection(side, c) ==
  /\ c <= dialed
  /\ handler[side][c] = "none"
  /\ handler' = [handler EXCEPT ![side][c] = "running"]
  /\ connection' = [connection EXCEPT ![side] = c]
  /\ latest' = [latest EXCEPT ![side] = c]
  /\ UNCHANGED <<links, notify, closed, box, wire, dialer, broken, dialed, history, calls>>

\* A request that is read while an older connection still has a removal of it.
Overtakes(side, c) ==
  side = "far" /\ \E d \in Conns, r \in Remote :
    d < c /\ Head(wire[c].far) = Ask(r) /\ TakeBack(r) \in ToSet(wire[d].far)

\* handleIncomingMessages: what was read goes to the queue of Serve.
Read(side, c) ==
  /\ handler[side][c] = "running"
  /\ wire[c][side] # <<>>
  /\ box' = [box EXCEPT ![side] = Append(@, Head(wire[c][side]))]
  /\ wire' = [wire EXCEPT ![c][side] = Tail(@)]
  /\ overtaken' = (overtaken \/ Overtakes(side, c))
  /\ UNCHANGED <<links, notify, closed, net, asked, told, lost, calls>>

\* The network fails, a deadline passes, or one side closes the connection.
Break(c) ==
  /\ c <= dialed
  /\ c \notin broken
  /\ broken' = broken \cup {c}
  /\ UNCHANGED <<links, notify, closed, box, connection, handler, dialer, dialed, latest, wire, history, calls>>

\* A handshake or a read fails and the handler ends: unsetConnection.  What it
\* did not read is gone.
HandlerEnds(side, c) ==
  /\ c \in broken
  /\ handler[side][c] # "over"
  /\ handler' = [handler EXCEPT ![side][c] = "over"]
  /\ wire' = [wire EXCEPT ![c][side] = <<>>]
  /\ lost' = (lost \/ \E m \in ToSet(wire[c][side]) : Matters(m))
  /\ UNCHANGED <<links, notify, closed, box, dialer, broken, dialed, latest, asked, told, overtaken, calls>>

\* Seeded fault for UnsetConnection: no test.
UnsetAnyConnection(side, c) == connection' = [connection EXCEPT ![side] = None]

\* "if rm.connection == ms { rm.connection = nil }"
UnsetConnection(side, c) ==
  connection' = IF connection[side] = c THEN [connection EXCEPT ![side] = None] ELSE connection

-----------------------------------------------------------------------------
Calls ==
  \/ \E l \in Local, r \in Remote : OnCloseNotify(l, r) \/ RemoveNotify(l, r)
  \/ \E r \in Remote : Close(r)

ServeNear == \E m \in ToSet(box.near) :
  \/ NotifyMore(m) \/ NotifyFirst(m) \/ NotifyFails(m)
  \/ UnnotifyMore(m) \/ UnnotifyLast(m) \/ HandleRemoteMailboxClosed(m)

ServeFar == \E m \in ToSet(box.far) :
  Subscribe(m) \/ SubscribeLate(m) \/ Unsubscribe(m) \/ HandleMailboxClosed(m)

Connections ==
  \/ Dial
  \/ \E c \in Conns : Break(c)
  \/ \E side \in Sides, c \in Conns :
       \/ SetConnection(side, c)
       \/ Read(side, c)
       \/ HandlerEnds(side, c) /\ UnsetConnection(side, c)

Next == Calls \/ ServeNear \/ ServeFar \/ Connections

Spec == Init /\ [][Next]_vars

(* The supervisor keeps both Serves running, handshakes end in one way or the
   other, and handlers read what there is.  Nobody has to call, to dial or to
   break a connection. *)
FairSpec ==
  /\ Spec
  /\ WF_vars(ServeNear)
  /\ WF_vars(ServeFar)
  /\ \A side \in Sides, c \in Conns : WF_vars(SetConnection(side, c)) /\ WF_vars(Read(side, c))

-----------------------------------------------------------------------------
(* What links to another node promise *)

\* The news that r was closed is under way.
NewsUnderWay(r) ==
  \/ [type |-> "MailboxClosed", remote |-> r] \in ToSet(box.far)
  \/ [type |-> "RemoteMailboxClosed", remote |-> r] \in
        ToSet(box.near) \cup UNION {ToSet(wire[c].near) : c \in Conns}

\* News under way, wherever it is, is of a mailbox that was closed.
NewsIsTrue == \A r \in Remote : NewsUnderWay(r) => r \in closed

\* A queue has a request, and nothing behind it that takes it back.
Stands(queue, request, removal) == \E i \in DOMAIN queue :
  queue[i] = request /\ \A j \in DOMAIN queue : j > i => queue[j] # removal

\* The far side is subscribed to r, or will be once it has handled its queue, and
\* nothing on the connections takes that back.
SubscribedTo(r) ==
  /\ (r \in notify /\ TakeBack(r) \notin ToSet(box.far)) \/ Stands(box.far, Ask(r), TakeBack(r))
  /\ \A c \in Conns : TakeBack(r) \notin ToSet(wire[c].far)

\* It will be asked over connection c, and nothing later takes that back.
AskedOver(c, r) ==
  /\ Stands(wire[c].far, Ask(r), TakeBack(r))
  /\ \A d \in Conns : d > c => TakeBack(r) \notin ToSet(wire[d].far)

Covered(r) == NewsUnderWay(r) \/ SubscribedTo(r) \/ \E c \in Conns : AskedOver(c, r)

\* Whoever is linked to a mailbox of the other node is owed a notice by that node,
\* as long as no request and no notice is lost and no request is read before an older
\* removal: links come and go, share one subscription, and outlive connections.
NoticeOwed == ~lost /\ ~overtaken => \A r \in Remote : links[r] # {} => Covered(r)

\* Whoever asked for a notice and did not take that back has it, is linked, or is
\* about to be: no removal from before it asked again can still unlink it.
AskedIsLinked == \A p \in asked :
  \/ p \in told
  \/ p[1] \in links[p[2]] /\ Unnotify(p[1], p[2]) \notin ToSet(box.near)
  \/ Stands(box.near, Notify(p[1], p[2]), Unnotify(p[1], p[2]))

\* Whatever is not broken is the newest connection, whichever side dials and however
\* late the other side's handlers come; a handler that ended left nothing to read.
NewestIsWhole ==
  /\ \A side \in Sides : connection[side] # None => handler[side][connection[side]] = "running"
  /\ \A c \in Conns : c < dialed => handler[dialer][c] = "over"
  /\ \A c \in Conns : c > dialed => c \notin broken
  /\ \A c \in Conns, side \in Sides :
       /\ c > dialed => handler[side][c] = "none" /\ wire[c][side] = <<>>
       /\ handler[side][c] = "over" => c \in broken /\ wire[c][side] = <<>>

\* Removals are overtaken only where the far side listens: a dialer has one handler
\* at a time.
OvertakenWhereFarListens == overtaken => dialer = "near"

LinkInv == TypeOK /\ NewestIsWhole /\ NewsIsTrue /\ NoticeOwed /\ AskedIsLinked /\ OvertakenWhereFarListens

\* The end of an old connection never takes away a newer one: each side sends on
\* the connection it set last for as long as that one's handler runs.
LatestIsUsed == \A side \in Sides :
  (latest[side] # None /\ handler[side][latest[side]] = "running")
    => connection[side] = latest[side]

\* Nobody is told of the close of a mailbox of the other node that is open, unless
\* Serve gives up the other node with all its mailboxes: no request, removal or notice
\* that is late, handled twice or read from an old connection makes a false notice.
NoticesAreTrue == [][\A p \in told' \ told :
  p[2] \in closed \/ \E m \in ToSet(box.near) : NotifyFails(m)]_vars

\* mailbox.go:185: whoever asked gets a notice once the mailbox is closed, unless a
\* message was lost or a removal overtaken.
LinkIsAnswered == \A p \in Pairs :
  (p \in asked /\ p[2] \in closed) ~> (p \in told \/ p \notin asked \/ lost \/ overtaken)
=============================================================================

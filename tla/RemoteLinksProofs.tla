-------------------------- MODULE RemoteLinksProofs --------------------------
(* Theorems about RemoteLinks, whichever side dials and however many connections
   there are. *)
EXTENDS RemoteLinks, TLAPS

\* What setConnection and unsetConnection rely on: the shape of the variables
\* they read and change.
ConnectionsOK ==
  /\ connection \in [Sides -> Conns \cup {None}]
  /\ handler \in [Sides -> [Conns -> {"none", "running", "over"}]]
  /\ latest \in [Sides -> Conns \cup {None}]

ConnectionInv == ConnectionsOK /\ LatestIsUsed

\* There is no connection at the start.
LEMMA ConnectionInit == Init => ConnectionInv
BY DEF Init, ConnectionInv, ConnectionsOK, LatestIsUsed

\* A side that sets a connection uses it; the other side is not concerned.
LEMMA SetConnectionStep ==
  ASSUME ConnectionInv, NEW side \in Sides, NEW c \in Conns, SetConnection(side, c)
  PROVE  ConnectionInv'
<1> USE DEF ConnectionInv, SetConnection
<1>1. ConnectionsOK'
  BY DEF ConnectionsOK
<1>2. LatestIsUsed'
  <2> SUFFICES ASSUME NEW s \in Sides, latest'[s] # None, handler'[s][latest'[s]] = "running"
               PROVE  connection'[s] = latest'[s]
    BY DEF LatestIsUsed
  <2>1. CASE s = side
    BY <2>1 DEF ConnectionsOK
  <2>2. CASE s # side
    <3>1. latest'[s] = latest[s] /\ connection'[s] = connection[s] /\ handler'[s] = handler[s]
      BY <2>2 DEF ConnectionsOK
    <3> QED BY <3>1 DEF LatestIsUsed
  <2> QED BY <2>1, <2>2
<1> QED BY <1>1, <1>2

\* A handler that ends takes its own connection away and no other: if the latest
\* one still runs, it is not the one that ends, and the side goes on using it.
LEMMA HandlerEndsStep ==
  ASSUME ConnectionInv, NEW side \in Sides, NEW c \in Conns,
         HandlerEnds(side, c), UnsetConnection(side, c)
  PROVE  ConnectionInv'
<1> USE DEF ConnectionInv, HandlerEnds, UnsetConnection
<1>1. ConnectionsOK'
  <2>1. connection' \in [Sides -> Conns \cup {None}]
    BY DEF ConnectionsOK
  <2>2. handler' \in [Sides -> [Conns -> {"none", "running", "over"}]]
    BY DEF ConnectionsOK
  <2> QED BY <2>1, <2>2 DEF ConnectionsOK
<1>2. LatestIsUsed'
  <2> SUFFICES ASSUME NEW s \in Sides, latest'[s] # None, handler'[s][latest'[s]] = "running"
               PROVE  connection'[s] = latest'[s]
    BY DEF LatestIsUsed
  <2>1. latest'[s] = latest[s] /\ latest[s] \in Conns
    BY DEF ConnectionsOK
  <2>2. ~(s = side /\ latest[s] = c)
    BY <2>1 DEF ConnectionsOK
  <2>3. handler[s][latest[s]] = "running"
    BY <2>1, <2>2 DEF ConnectionsOK
  <2>4. connection[s] = latest[s]
    BY <2>1, <2>3 DEF LatestIsUsed
  <2>5. connection'[s] = connection[s]
    BY <2>2, <2>4 DEF ConnectionsOK
  <2> QED BY <2>1, <2>4, <2>5
<1> QED BY <1>1, <1>2

\* Nothing else sets, unsets or ends: not the calls, not Serve on either side, not
\* a connection that is made or breaks or is read from.
LEMMA ConnectionStep == ConnectionInv /\ [Next]_vars => ConnectionInv'
<1> SUFFICES ASSUME ConnectionInv, [Next]_vars PROVE ConnectionInv'
  OBVIOUS
<1> DEFINE Kept == UNCHANGED <<connection, handler, latest>>
<1>1. Kept => ConnectionInv'
  BY DEF ConnectionInv, ConnectionsOK, LatestIsUsed
<1>2. Calls => Kept
  BY DEF Calls, OnCloseNotify, RemoveNotify, Close, Call, net
<1>3. ServeNear => Kept
  BY DEF ServeNear, NotifyMore, NotifyFirst, NotifyFails, UnnotifyMore, UnnotifyLast,
         HandleRemoteMailboxClosed, net
<1>4. ServeFar => Kept
  BY DEF ServeFar, Subscribe, SubscribeLate, Unsubscribe, HandleMailboxClosed, net
<1>5. ASSUME Connections PROVE ConnectionInv'
  <2>1. CASE Dial
    BY <1>1, <2>1 DEF Dial
  <2>2. CASE \E c \in Conns : Break(c)
    BY <1>1, <2>2 DEF Break
  <2>3. ASSUME NEW side \in Sides, NEW c \in Conns, SetConnection(side, c)
        PROVE  ConnectionInv'
    BY <2>3, SetConnectionStep
  <2>4. ASSUME NEW side \in Sides, NEW c \in Conns, Read(side, c)
        PROVE  ConnectionInv'
    BY <1>1, <2>4 DEF Read, net
  <2>5. ASSUME NEW side \in Sides, NEW c \in Conns, HandlerEnds(side, c), UnsetConnection(side, c)
        PROVE  ConnectionInv'
    BY <2>5, HandlerEndsStep
  <2> QED BY <1>5, <2>1, <2>2, <2>3, <2>4, <2>5 DEF Connections
<1>6. CASE UNCHANGED vars
  BY <1>1, <1>6 DEF vars, net
<1> QED BY <1>1, <1>2, <1>3, <1>4, <1>5, <1>6 DEF Next

\* unsetConnection never takes away the connection of a newer handler: a side
\* sends on the connection it set last for as long as that one's handler runs.
THEOREM NewestConnectionIsUsed == Spec => []LatestIsUsed
<1>1. ConnectionInv => LatestIsUsed
  BY DEF ConnectionInv
<1> QED BY ConnectionInit, ConnectionStep, <1>1, PTL DEF Spec

-----------------------------------------------------------------------------
(* Queues *)

\* What is in a queue stays in it when something is added.
LEMMA AppendKeeps ==
  ASSUME NEW S, NEW q \in Seq(S), NEW m, NEW x
  PROVE  /\ x \in ToSet(q) => x \in ToSet(Append(q, m))
         /\ m \in ToSet(Append(q, m))
         /\ x \in ToSet(Append(q, m)) => x \in ToSet(q) \/ x = m
<1>1. /\ DOMAIN q = 1..Len(q) /\ Len(q) \in Nat
      /\ DOMAIN Append(q, m) = 1..(Len(q) + 1)
      /\ Append(q, m)[Len(q) + 1] = m
      /\ \A i \in 1..Len(q) : Append(q, m)[i] = q[i]
  OBVIOUS
<1> QED BY <1>1 DEF ToSet

\* Taking the head leaves the rest as it was.
LEMMA TailKeeps ==
  ASSUME NEW S, NEW q \in Seq(S), q # <<>>, NEW x
  PROVE  /\ Tail(q) \in Seq(S) /\ Head(q) \in S /\ Head(q) \in ToSet(q)
         /\ x \in ToSet(q) => x \in ToSet(Tail(q)) \/ x = Head(q)
         /\ x \in ToSet(Tail(q)) => x \in ToSet(q)
<1>1. /\ DOMAIN q = 1..Len(q) /\ Len(q) \in Nat \ {0}
      /\ Tail(q) \in Seq(S) /\ DOMAIN Tail(q) = 1..(Len(q) - 1)
      /\ Head(q) = q[1] /\ Head(q) \in S
      /\ \A i \in 1..(Len(q) - 1) : Tail(q)[i] = q[i + 1]
  OBVIOUS
<1>2. Head(q) \in ToSet(q)
  BY <1>1 DEF ToSet
<1>3. ASSUME x \in ToSet(q), x # Head(q) PROVE x \in ToSet(Tail(q))
  <2>1. PICK i \in 1..Len(q) : q[i] = x
    BY <1>1, <1>3 DEF ToSet
  <2>2. i - 1 \in 1..(Len(q) - 1) /\ Tail(q)[i - 1] = x
    BY <1>1, <1>3, <2>1
  <2> QED BY <1>1, <2>2 DEF ToSet
<1>4. ASSUME x \in ToSet(Tail(q)) PROVE x \in ToSet(q)
  <2>1. PICK i \in 1..(Len(q) - 1) : Tail(q)[i] = x
    BY <1>1, <1>4 DEF ToSet
  <2>2. i + 1 \in 1..Len(q) /\ q[i + 1] = x
    BY <1>1, <2>1
  <2> QED BY <1>1, <2>2 DEF ToSet
<1> QED BY <1>1, <1>2, <1>3, <1>4

\* A queue of one kind takes more of that kind, and is a queue of a wider kind.
LEMMA AppendTyped ==
  ASSUME NEW S, NEW T, NEW q \in Seq(S), NEW m \in S, S \subseteq T
  PROVE  Append(q, m) \in Seq(S) /\ m \in T /\ Append(q, m) \in Seq(T)
<1>1. Append(q, m) \in Seq(S) /\ q \in Seq(T) /\ m \in T
  OBVIOUS
<1> QED BY <1>1

\* A request stands when anything but its removal is added, and when it is added
\* itself.
LEMMA AppendStands ==
  ASSUME NEW S, NEW q \in Seq(S), NEW ask, NEW back, NEW m
  PROVE  /\ Stands(q, ask, back) /\ m # back => Stands(Append(q, m), ask, back)
         /\ m = ask => Stands(Append(q, m), ask, back)
         /\ back \notin ToSet(q) /\ m # back => back \notin ToSet(Append(q, m))
<1>1. /\ DOMAIN q = 1..Len(q) /\ Len(q) \in Nat
      /\ DOMAIN Append(q, m) = 1..(Len(q) + 1)
      /\ Append(q, m)[Len(q) + 1] = m
      /\ \A i \in 1..Len(q) : Append(q, m)[i] = q[i]
  OBVIOUS
<1>2. ASSUME Stands(q, ask, back), m # back PROVE Stands(Append(q, m), ask, back)
  BY <1>1, <1>2 DEF Stands
<1>3. m = ask => Stands(Append(q, m), ask, back)
  BY <1>1 DEF Stands
<1>4. back \notin ToSet(q) /\ m # back => back \notin ToSet(Append(q, m))
  BY AppendKeeps
<1> QED BY <1>2, <1>3, <1>4

\* When the head is taken a request stands, or it was the head and there is no removal
\* behind it.
LEMMA TailStands ==
  ASSUME NEW S, NEW q \in Seq(S), q # <<>>, NEW ask, NEW back
  PROVE  /\ Stands(q, ask, back) => Stands(Tail(q), ask, back) \/ (Head(q) = ask /\ back \notin ToSet(Tail(q)))
         /\ back \notin ToSet(q) => back \notin ToSet(Tail(q))
<1>1. /\ DOMAIN q = 1..Len(q) /\ Len(q) \in Nat \ {0}
      /\ DOMAIN Tail(q) = 1..(Len(q) - 1)
      /\ Head(q) = q[1]
      /\ \A i \in 1..(Len(q) - 1) : Tail(q)[i] = q[i + 1]
  OBVIOUS
<1>2. ASSUME Stands(q, ask, back)
      PROVE  Stands(Tail(q), ask, back) \/ (Head(q) = ask /\ back \notin ToSet(Tail(q)))
  <2>1. PICK i \in 1..Len(q) : q[i] = ask /\ \A j \in 1..Len(q) : j > i => q[j] # back
    BY <1>1, <1>2 DEF Stands
  <2>2. CASE i = 1
    <3>1. \A j \in 1..(Len(q) - 1) : Tail(q)[j] # back
      BY <1>1, <2>1, <2>2
    <3> QED BY <1>1, <2>1, <2>2, <3>1 DEF ToSet
  <2>3. CASE i # 1
    <3>1. i - 1 \in 1..(Len(q) - 1) /\ Tail(q)[i - 1] = ask
      BY <1>1, <2>1, <2>3
    <3>2. \A j \in 1..(Len(q) - 1) : j > i - 1 => Tail(q)[j] # back
      BY <1>1, <2>1, <2>3
    <3> QED BY <1>1, <3>1, <3>2 DEF Stands
  <2> QED BY <2>2, <2>3
<1>3. back \notin ToSet(q) => back \notin ToSet(Tail(q))
  BY TailKeeps
<1> QED BY <1>2, <1>3

-----------------------------------------------------------------------------
(* Types *)

\* The messages of each kind, in the queues they belong to.
LEMMA MessageKinds ==
  ASSUME NEW r \in Remote, NEW l \in Local
  PROVE  /\ Notify(l, r) \in InBox["near"] /\ Unnotify(l, r) \in InBox["near"]
         /\ [type |-> "RemoteMailboxClosed", remote |-> r] \in OnWire["near"]
         /\ [type |-> "MailboxClosed", remote |-> r] \in InBox["far"]
         /\ Ask(r) \in OnWire["far"] /\ TakeBack(r) \in OnWire["far"]
BY DEF InBox, OnWire, NearMessages, FarMessages, ToNear, ToFar,
       Notify, Unnotify, Ask, TakeBack

\* What the queues and wires of each side hold.
LEMMA BoxesAndWires ==
  /\ \A side \in Sides : InBox[side] \subseteq Messages /\ OnWire[side] \subseteq InBox[side]
  /\ \A m \in InBox["near"] : /\ m.remote \in Remote
                              /\ m.type \in {"NotifyRemote", "UnnotifyRemote"} => m.local \in Local
  /\ \A m \in InBox["far"] : m.remote \in Remote
BY DEF Sides, InBox, OnWire, Messages, NearMessages, FarMessages, ToNear, ToFar

\* What Serve of a side receives is a message for it.
LEMMA ReceiveTyped ==
  ASSUME TypeOK, NEW side \in Sides, NEW m, NEW type, Receive(side, m, type)
  PROVE  /\ m \in InBox[side] /\ m.type = type
         /\ box'[side] = Tail(box[side]) /\ box'[side] \in Seq(InBox[side])
         /\ \A other \in Sides \ {side} : box'[other] = box[other]
         /\ DOMAIN box' = Sides
<1>1. box[side] \in Seq(InBox[side]) /\ box[side] # <<>> /\ m = Head(box[side])
  BY DEF TypeOK, Receive
<1>2. m \in InBox[side] /\ Tail(box[side]) \in Seq(InBox[side])
  BY <1>1, TailKeeps
<1> QED BY <1>1, <1>2 DEF Receive, TypeOK

BoxOK ==
  /\ box \in [Sides -> Seq(Messages)]
  /\ \A side \in Sides : box[side] \in Seq(InBox[side])

WireOK ==
  /\ wire \in [Conns -> [Sides -> Seq(Messages)]]
  /\ \A c \in Conns, side \in Sides : wire[c][side] \in Seq(OnWire[side])

\* What is left of TypeOK.
RestOK ==
  /\ links \in [Remote -> SUBSET Local]
  /\ notify \subseteq Remote /\ closed \subseteq Remote
  /\ connection \in [Sides -> Conns \cup {None}]
  /\ handler \in [Sides -> [Conns -> {"none", "running", "over"}]]
  /\ dialer \in Sides /\ broken \subseteq Conns /\ dialed \in 0..MaxConns
  /\ asked \subseteq Pairs /\ told \subseteq Pairs
  /\ lost \in BOOLEAN /\ overtaken \in BOOLEAN
  /\ latest \in [Sides -> Conns \cup {None}]
  /\ calls \in 0..MaxCalls

\* TypeOK in three parts: queues, wires and the rest.
LEMMA TypeParts == TypeOK <=> BoxOK /\ WireOK /\ RestOK
BY DEF TypeOK, BoxOK, WireOK, RestOK

\* A queue is typed after something is added, and after Serve received something.
LEMMA BoxAdd ==
  ASSUME BoxOK, NEW side \in Sides, NEW m \in InBox[side],
         box' = [box EXCEPT ![side] = Append(@, m)]
  PROVE  BoxOK'
<1>1. m \in Messages
  BY BoxesAndWires
<1>2. box'[side] = Append(box[side], m) /\ \A other \in Sides : other # side => box'[other] = box[other]
  BY DEF BoxOK
<1>3. \A other \in Sides : box'[other] \in Seq(InBox[other])
  <2>1. box[side] \in Seq(InBox[side])
    BY DEF BoxOK
  <2>2. Append(box[side], m) \in Seq(InBox[side])
    BY <2>1, AppendTyped
  <2> QED BY <1>2, <2>2 DEF BoxOK
<1>4. box' \in [Sides -> Seq(Messages)]
  BY <1>1 DEF BoxOK
<1> QED BY <1>3, <1>4 DEF BoxOK

\* ... and after Serve received something.
LEMMA BoxTake ==
  ASSUME BoxOK, NEW side \in Sides, box[side] # <<>>,
         box' = [box EXCEPT ![side] = Tail(@)]
  PROVE  BoxOK'
<1>1. Tail(box[side]) \in Seq(InBox[side]) /\ Tail(box[side]) \in Seq(Messages)
  BY TailKeeps DEF BoxOK
<1>2. box'[side] = Tail(box[side]) /\ \A other \in Sides : other # side => box'[other] = box[other]
  BY DEF BoxOK
<1> QED BY <1>1, <1>2 DEF BoxOK

\* What is sent is of the kind the other side reads.
LEMMA WireAdd ==
  ASSUME TypeOK, NEW side \in Sides, NEW m \in OnWire[Other(side)], Send(side, m) \/ Vanish(side, m)
  PROVE  WireOK' /\ lost' \in BOOLEAN
<1>0. WireOK /\ RestOK
  BY TypeParts
<1>1. lost' \in BOOLEAN
  BY <1>0 DEF Send, Transmit, Vanish, RestOK, Matters
<1>2. CASE wire' = wire
  BY <1>0, <1>1, <1>2 DEF WireOK
<1>3. CASE Transmit(side, m)
  <2> DEFINE c == connection[side]
             other == Other(side)
  <2>1. c \in Conns /\ other \in Sides
    BY <1>0, <1>3 DEF Transmit, RestOK, Other, Sides
  <2>2. m \in Messages /\ Append(wire[c][other], m) \in Seq(OnWire[other])
    <3>1. wire[c][other] \in Seq(OnWire[other])
      BY <1>0, <2>1 DEF WireOK
    <3>2. m \in OnWire[other]
      OBVIOUS
    <3>3. OnWire[other] \subseteq Messages
      BY <2>1, BoxesAndWires
    <3> HIDE DEF c, other
    <3> QED BY <3>1, <3>2, <3>3, AppendTyped
  <2>3. wire' = [wire EXCEPT ![c][other] = Append(@, m)]
    BY <1>3 DEF Transmit
  <2> HIDE DEF c, other
  <2>4. wire' \in [Conns -> [Sides -> Seq(Messages)]]
    BY <1>0, <2>1, <2>2, <2>3 DEF WireOK
  <2>5. \A d \in Conns, s \in Sides :
          wire'[d][s] = IF d = c /\ s = other THEN Append(wire[c][other], m) ELSE wire[d][s]
    BY <1>0, <2>1, <2>3 DEF WireOK
  <2>6. \A d \in Conns, s \in Sides : wire'[d][s] \in Seq(OnWire[s])
    BY <1>0, <2>2, <2>5 DEF WireOK
  <2> QED BY <1>1, <2>4, <2>6 DEF WireOK
<1> QED BY <1>1, <1>2, <1>3 DEF Send, Vanish

\* Every step keeps the types.
LEMMA TypeStep ==
  ASSUME TypeOK, [Next]_vars
  PROVE  TypeOK'
<1>0. BoxOK /\ WireOK /\ RestOK
  BY TypeParts
<1> DEFINE WireKept == UNCHANGED wire
           BoxKept == UNCHANGED box
<1>1. BoxKept => BoxOK'
  BY <1>0 DEF BoxOK
<1>2. WireKept => WireOK'
  BY <1>0 DEF WireOK
<1>3. ASSUME NEW side \in Sides, NEW m, NEW type, Receive(side, m, type)
      PROVE  /\ BoxOK' /\ m \in InBox[side] /\ m.type = type /\ m.remote \in Remote
             /\ side = "near" /\ type \in {"NotifyRemote", "UnnotifyRemote"} => m.local \in Local
  <2>1. BoxOK'
    BY <1>0, <1>3, BoxTake DEF Receive
  <2> QED BY <1>3, <2>1, ReceiveTyped, BoxesAndWires DEF Sides
<1>4. "near" \in Sides /\ "far" \in Sides
  BY DEF Sides
<1>5. ASSUME NEW m \in OnWire["far"], Send("near", m) \/ Vanish("near", m) PROVE WireOK' /\ lost' \in BOOLEAN
  <2>1. Other("near") = "far"
    BY DEF Other
  <2> QED BY <1>4, <1>5, <2>1, WireAdd
<1>6. ASSUME NEW m \in OnWire["near"], Send("far", m) PROVE WireOK' /\ lost' \in BOOLEAN
  <2>1. Other("far") = "near"
    BY DEF Other
  <2> QED BY <1>4, <1>6, <2>1, WireAdd
<1>7. \A r \in Remote : Ask(r) \in OnWire["far"] /\ TakeBack(r) \in OnWire["far"]
  BY DEF OnWire, ToFar, Ask, TakeBack
<1>8. \A r \in Remote : /\ [type |-> "RemoteMailboxClosed", remote |-> r] \in OnWire["near"]
                        /\ [type |-> "MailboxClosed", remote |-> r] \in InBox["far"]
  BY DEF OnWire, InBox, ToNear, FarMessages
<1>9. BoxOK' /\ WireOK' /\ RestOK' => TypeOK'
  BY DEF TypeOK, BoxOK, WireOK, RestOK
<1>11. ASSUME NEW l \in Local, NEW r \in Remote, OnCloseNotify(l, r) \/ RemoveNotify(l, r)
       PROVE  TypeOK'
  <2>1. BoxOK'
    BY <1>0, <1>4, <1>11, MessageKinds, BoxAdd DEF OnCloseNotify, RemoveNotify
  <2>2. WireOK'
    BY <1>2, <1>11 DEF OnCloseNotify, RemoveNotify, Call
  <2>3. RestOK'
    BY <1>0, <1>11, RemoteLinksAssumption DEF OnCloseNotify, RemoveNotify, Call, RestOK, Pairs, net
  <2> QED BY <2>1, <2>2, <2>3, <1>9
<1>12. ASSUME NEW r \in Remote, Close(r) PROVE TypeOK'
  <2>1. BoxOK'
    BY <1>0, <1>1, <1>4, <1>8, <1>12, BoxAdd DEF Close
  <2>2. WireOK'
    BY <1>2, <1>12 DEF Close, Call
  <2>3. RestOK'
    BY <1>0, <1>12, RemoteLinksAssumption DEF Close, Call, RestOK, net
  <2> QED BY <2>1, <2>2, <2>3, <1>9
<1>13. ASSUME NEW m, NotifyMore(m) \/ UnnotifyMore(m) PROVE TypeOK'
  <2>1. BoxOK' /\ m.remote \in Remote /\ m.local \in Local
    BY <1>3, <1>4, <1>13 DEF NotifyMore, UnnotifyMore
  <2>2. WireOK'
    BY <1>2, <1>13 DEF NotifyMore, UnnotifyMore
  <2>3. RestOK'
    BY <1>0, <1>13, <2>1 DEF NotifyMore, UnnotifyMore, RestOK, net, history
  <2> QED BY <2>1, <2>2, <2>3, <1>9
<1>14. ASSUME NEW m, NotifyFirst(m) PROVE TypeOK'
  <2>1. BoxOK' /\ m.remote \in Remote /\ m.local \in Local
    BY <1>3, <1>4, <1>14 DEF NotifyFirst
  <2>2. WireOK' /\ lost' \in BOOLEAN
    BY <1>5, <1>7, <1>14, <2>1 DEF NotifyFirst, Send
  <2>3. RestOK'
    BY <1>0, <1>14, <2>1, <2>2 DEF NotifyFirst, RestOK, net
  <2> QED BY <2>1, <2>2, <2>3, <1>9
<1>15. ASSUME NEW m, NotifyFails(m) PROVE TypeOK'
  <2>1. BoxOK' /\ m.remote \in Remote /\ m.local \in Local
    BY <1>3, <1>4, <1>15 DEF NotifyFails
  <2>2. WireOK'
    BY <1>2, <1>15 DEF NotifyFails
  <2>3. told' \subseteq Pairs /\ broken' \subseteq Conns
    BY <1>0, <1>4, <1>15, <2>1 DEF NotifyFails, Tell, RestOK, Pairs
  <2>4. RestOK'
    BY <1>0, <1>15, <2>3 DEF NotifyFails, RestOK
  <2> QED BY <2>1, <2>2, <2>4, <1>9
<1>16. ASSUME NEW m, UnnotifyLast(m) PROVE TypeOK'
  <2>1. BoxOK' /\ m.remote \in Remote
    BY <1>3, <1>4, <1>16 DEF UnnotifyLast
  <2>2. WireOK' /\ lost' \in BOOLEAN
    BY <1>5, <1>7, <1>16, <2>1 DEF UnnotifyLast
  <2>3. RestOK'
    BY <1>0, <1>16, <2>1, <2>2 DEF UnnotifyLast, RestOK, net
  <2> QED BY <2>1, <2>2, <2>3, <1>9
<1>17. ASSUME NEW m, HandleRemoteMailboxClosed(m) PROVE TypeOK'
  <2>1. BoxOK' /\ m.remote \in Remote
    BY <1>3, <1>4, <1>17 DEF HandleRemoteMailboxClosed
  <2>2. WireOK'
    BY <1>2, <1>17 DEF HandleRemoteMailboxClosed
  <2>3. RestOK'
    BY <1>0, <1>17, <2>1 DEF HandleRemoteMailboxClosed, Tell, RestOK, Pairs, net
  <2> QED BY <2>1, <2>2, <2>3, <1>9
<1>18. ASSUME NEW m, Subscribe(m) \/ Unsubscribe(m) PROVE TypeOK'
  <2>1. BoxOK' /\ m.remote \in Remote
    BY <1>3, <1>4, <1>18 DEF Subscribe, Unsubscribe
  <2>2. WireOK'
    BY <1>2, <1>18 DEF Subscribe, Unsubscribe
  <2>3. RestOK'
    BY <1>0, <1>18, <2>1 DEF Subscribe, Unsubscribe, RestOK, net, history
  <2> QED BY <2>1, <2>2, <2>3, <1>9
<1>19. ASSUME NEW m, SubscribeLate(m) PROVE TypeOK'
  <2>1. box["far"] # <<>> /\ m = Head(box["far"]) /\ box["far"] \in Seq(InBox["far"])
    BY <1>0, <1>4, <1>19 DEF SubscribeLate, BoxOK
  <2>2. m.remote \in Remote /\ Tail(box["far"]) \in Seq(InBox["far"])
    BY <2>1, TailKeeps, BoxesAndWires
  <2>3. BoxOK'
    <3> DEFINE news == [type |-> "MailboxClosed", remote |-> m.remote]
               queue == Append(Tail(box["far"]), news)
    <3>1. news \in InBox["far"] /\ InBox["far"] \subseteq Messages
      BY <1>4, <1>8, <2>2, BoxesAndWires
    <3>2. queue \in Seq(InBox["far"]) /\ queue \in Seq(Messages)
      <4> HIDE DEF news
      <4> DEFINE before == Tail(box["far"])
      <4>1. before \in Seq(InBox["far"])
        BY <2>2
      <4> HIDE DEF before
      <4>2. Append(before, news) \in Seq(InBox["far"]) /\ Append(before, news) \in Seq(Messages)
        BY <3>1, <4>1, AppendTyped
      <4> QED BY <4>2 DEF before
    <3>3. box' = [box EXCEPT !["far"] = queue]
      BY <1>19 DEF SubscribeLate
    <3> HIDE DEF queue
    <3>4. \A side \in Sides : box'[side] = IF side = "far" THEN queue ELSE box[side]
      BY <1>0, <3>3 DEF BoxOK
    <3> QED BY <1>0, <3>2, <3>3, <3>4 DEF BoxOK
  <2>4. WireOK'
    BY <1>2, <1>19 DEF SubscribeLate
  <2>5. RestOK'
    BY <1>0, <1>19 DEF SubscribeLate, RestOK, net, history
  <2> QED BY <2>3, <2>4, <2>5, <1>9
<1>20. ASSUME NEW m, HandleMailboxClosed(m) PROVE TypeOK'
  <2>1. BoxOK' /\ m.remote \in Remote
    BY <1>3, <1>4, <1>20 DEF HandleMailboxClosed
  <2>2. WireOK' /\ lost' \in BOOLEAN
    BY <1>6, <1>8, <1>20, <2>1 DEF HandleMailboxClosed
  <2>3. RestOK'
    BY <1>0, <1>20, <2>2 DEF HandleMailboxClosed, RestOK, net
  <2> QED BY <2>1, <2>2, <2>3, <1>9
<1>21. ASSUME Dial \/ (\E c \in Conns : Break(c)) PROVE TypeOK'
  <2>1. BoxOK' /\ WireOK'
    BY <1>1, <1>2, <1>21 DEF Dial, Break
  <2>2. RestOK'
    BY <1>0, <1>21, RemoteLinksAssumption DEF Dial, Break, RestOK, history
  <2> QED BY <2>1, <2>2, <1>9
<1>22. ASSUME NEW side \in Sides, NEW c \in Conns, SetConnection(side, c) PROVE TypeOK'
  <2>1. BoxOK' /\ WireOK'
    BY <1>1, <1>2, <1>22 DEF SetConnection
  <2>2. RestOK'
    BY <1>0, <1>22 DEF SetConnection, RestOK, history
  <2> QED BY <2>1, <2>2, <1>9
<1>23. ASSUME NEW side \in Sides, NEW c \in Conns, Read(side, c) PROVE TypeOK'
  <2>1. /\ wire[c][side] \in Seq(OnWire[side]) /\ wire[c][side] # <<>>
        /\ wire[c][side] \in Seq(Messages)
    BY <1>0, <1>23 DEF WireOK, Read
  <2>2. /\ Tail(wire[c][side]) \in Seq(OnWire[side]) /\ Tail(wire[c][side]) \in Seq(Messages)
        /\ Head(wire[c][side]) \in InBox[side]
    BY <2>1, TailKeeps, BoxesAndWires
  <2>3. BoxOK'
    BY <1>0, <1>23, <2>2, BoxAdd DEF Read
  <2>4. WireOK'
    <3>1. wire' = [wire EXCEPT ![c][side] = Tail(@)]
      BY <1>23 DEF Read
    <3>2. \A d \in Conns, s \in Sides :
            wire'[d][s] = IF d = c /\ s = side THEN Tail(wire[c][side]) ELSE wire[d][s]
      BY <1>0, <3>1 DEF WireOK
    <3>3. wire' \in [Conns -> [Sides -> Seq(Messages)]]
      BY <1>0, <2>2, <3>1 DEF WireOK
    <3> QED BY <1>0, <2>2, <3>2, <3>3 DEF WireOK
  <2>5. RestOK'
    BY <1>0, <1>23 DEF Read, RestOK, net, Overtakes
  <2> QED BY <2>3, <2>4, <2>5, <1>9
<1>24. ASSUME NEW side \in Sides, NEW c \in Conns, HandlerEnds(side, c), UnsetConnection(side, c)
       PROVE  TypeOK'
  <2>1. BoxOK'
    BY <1>1, <1>24 DEF HandlerEnds
  <2>2. WireOK'
    <3>1. wire' = [wire EXCEPT ![c][side] = <<>>]
      BY <1>24 DEF HandlerEnds
    <3>2. \A d \in Conns, s \in Sides :
            wire'[d][s] = IF d = c /\ s = side THEN <<>> ELSE wire[d][s]
      BY <1>0, <3>1 DEF WireOK
    <3>3. wire' \in [Conns -> [Sides -> Seq(Messages)]]
      BY <1>0, <3>1 DEF WireOK
    <3> QED BY <1>0, <3>2, <3>3 DEF WireOK
  <2>3. RestOK'
    BY <1>0, <1>24 DEF HandlerEnds, UnsetConnection, RestOK
  <2> QED BY <2>1, <2>2, <2>3, <1>9
<1>25. ASSUME UNCHANGED vars PROVE TypeOK'
  BY <1>0, <1>1, <1>2, <1>9, <1>25 DEF vars, net, history, RestOK
<1>26. CASE Calls
  BY <1>11, <1>12, <1>26 DEF Calls
<1>27. CASE ServeNear
  BY <1>13, <1>14, <1>15, <1>16, <1>17, <1>27 DEF ServeNear
<1>28. CASE ServeFar
  BY <1>18, <1>19, <1>20, <1>28 DEF ServeFar
<1>29. CASE Connections
  BY <1>21, <1>22, <1>23, <1>24, <1>29 DEF Connections
<1> QED BY <1>25, <1>26, <1>27, <1>28, <1>29 DEF Next

-----------------------------------------------------------------------------
(* Connections *)

\* A connection that is in use and whole is the newest: the older ones are over at
\* the dialer, hence broken.
LEMMA NewestInUse ==
  ASSUME TypeOK, NewestIsWhole, NEW side \in Sides, connection[side] \notin broken \cup {None}
  PROVE  /\ connection[side] = dialed /\ dialed \in Conns
         /\ \A s \in Sides : handler[s][dialed] # "over"
<1>1. connection[side] \in Conns /\ dialer \in Sides /\ dialed \in Nat
  BY RemoteLinksAssumption DEF TypeOK
<1>2. handler[side][connection[side]] = "running"
  BY DEF NewestIsWhole
<1>3. ~(connection[side] > dialed)
  BY <1>1, <1>2 DEF NewestIsWhole
<1>4. ~(connection[side] < dialed)
  BY <1>1 DEF NewestIsWhole
<1>5. connection[side] = dialed
  BY <1>1, <1>3, <1>4 DEF Conns
<1> QED BY <1>1, <1>5 DEF NewestIsWhole

\* What is sent is the last thing on the newest connection.
LEMMA TransmitOnNewest ==
  ASSUME TypeOK, NewestIsWhole, NEW side \in Sides, NEW m, Transmit(side, m)
  PROVE  /\ dialed \in Conns /\ \A s \in Sides : handler[s][dialed] # "over"
         /\ Other(side) \in Sides /\ Other(side) # side
         /\ wire'[dialed][Other(side)] = Append(wire[dialed][Other(side)], m)
         /\ \A c \in Conns, s \in Sides : <<c, s>> # <<dialed, Other(side)>> => wire'[c][s] = wire[c][s]
<1>1. Other(side) \in Sides /\ Other(side) # side
  BY DEF Other, Sides
<1>2. connection[side] = dialed /\ dialed \in Conns /\ \A s \in Sides : handler[s][dialed] # "over"
  BY NewestInUse DEF Transmit
<1>3. wire' = [wire EXCEPT ![dialed][Other(side)] = Append(@, m)]
  BY <1>2 DEF Transmit
<1> QED BY <1>1, <1>2, <1>3 DEF TypeOK

\* Every step keeps the newest connection the only whole one.
LEMMA NewestStep ==
  ASSUME TypeOK, NewestIsWhole, [Next]_vars
  PROVE  NewestIsWhole'
<1>0. /\ connection \in [Sides -> Conns \cup {None}]
      /\ handler \in [Sides -> [Conns -> {"none", "running", "over"}]]
      /\ wire \in [Conns -> [Sides -> Seq(Messages)]]
      /\ dialer \in Sides /\ broken \subseteq Conns /\ dialed \in Nat
      /\ "near" \in Sides /\ "far" \in Sides /\ None \notin Conns
  BY RemoteLinksAssumption DEF TypeOK, Sides, Conns, None
<1>1. ASSUME UNCHANGED <<net, wire>> PROVE NewestIsWhole'
  BY <1>1 DEF NewestIsWhole, net
<1>2. ASSUME NEW side \in Sides, NEW m, UNCHANGED net, Send(side, m) \/ Vanish(side, m)
      PROVE  NewestIsWhole'
  <2>1. CASE UNCHANGED wire
    BY <1>1, <1>2, <2>1
  <2>2. CASE Transmit(side, m)
    <3>1. \A c \in Conns, s \in Sides : c # dialed => wire'[c][s] = wire[c][s]
      BY <2>2, TransmitOnNewest
    <3>2. \A s \in Sides : handler[s][dialed] # "over"
      BY <2>2, TransmitOnNewest
    <3>3. \A c \in Conns, s \in Sides :
            c > dialed \/ handler[s][c] = "over" => wire'[c][s] = wire[c][s]
      <4> TAKE c \in Conns, s \in Sides
      <4>1. c > dialed => c # dialed
        BY <1>0 DEF Conns
      <4>2. handler[s][c] = "over" => c # dialed
        BY <3>2
      <4> QED BY <3>1, <4>1, <4>2
    <3> QED BY <1>2, <3>3 DEF NewestIsWhole, net
  <2> QED BY <1>2, <2>1, <2>2 DEF Send, Vanish
<1>3. ASSUME Calls PROVE NewestIsWhole'
  BY <1>1, <1>3 DEF Calls, OnCloseNotify, RemoveNotify, Close, Call
<1>4. ASSUME NEW m, NotifyMore(m) \/ UnnotifyMore(m) \/ HandleRemoteMailboxClosed(m) PROVE NewestIsWhole'
  BY <1>1, <1>4 DEF NotifyMore, UnnotifyMore, HandleRemoteMailboxClosed
<1>5. ASSUME NEW m, NotifyFirst(m) \/ UnnotifyLast(m) PROVE NewestIsWhole'
  BY <1>0, <1>2, <1>5 DEF NotifyFirst, UnnotifyLast, Send
<1>6. ASSUME NEW m, NotifyFails(m) PROVE NewestIsWhole'
  <2>1. connection["near"] # None => handler["near"][connection["near"]] = "running"
    BY <1>0 DEF NewestIsWhole
  <2>2. \A c \in broken' \ broken : c \in Conns /\ handler["near"][c] = "running"
    BY <1>0, <1>6, <2>1 DEF NotifyFails
  <2>3. broken \subseteq broken' /\ UNCHANGED <<connection, handler, dialer, dialed, wire>>
    BY <1>6 DEF NotifyFails
  <2> QED BY <1>0, <2>2, <2>3 DEF NewestIsWhole
<1>7. ASSUME NEW m, Subscribe(m) \/ SubscribeLate(m) \/ Unsubscribe(m) PROVE NewestIsWhole'
  BY <1>1, <1>7 DEF Subscribe, SubscribeLate, Unsubscribe
<1>8. ASSUME NEW m, HandleMailboxClosed(m) PROVE NewestIsWhole'
  BY <1>0, <1>2, <1>8 DEF HandleMailboxClosed
<1>9. ASSUME Dial PROVE NewestIsWhole'
  <2>1. dialed' = dialed + 1 /\ UNCHANGED <<connection, handler, dialer, broken, wire>>
    BY <1>9 DEF Dial
  <2>2. \A c \in Conns : c < dialed' => handler[dialer][c] = "over"
    BY <1>0, <1>9, <2>1 DEF Dial, Conns
  <2>3. \A c \in Conns : c > dialed' => c > dialed
    BY <1>0, <2>1 DEF Conns
  <2> QED BY <2>1, <2>2, <2>3 DEF NewestIsWhole
<1>10. ASSUME NEW c \in Conns, Break(c) PROVE NewestIsWhole'
  BY <1>0, <1>10 DEF Break, NewestIsWhole, Conns
<1>11. ASSUME NEW side \in Sides, NEW c \in Conns, SetConnection(side, c) PROVE NewestIsWhole'
  <2>1. /\ UNCHANGED <<wire, dialer, broken, dialed>> /\ c <= dialed /\ handler[side][c] = "none"
        /\ \A d \in Conns, s \in Sides :
             handler'[s][d] = IF s = side /\ d = c THEN "running" ELSE handler[s][d]
        /\ \A s \in Sides : connection'[s] = IF s = side THEN c ELSE connection[s]
    <3>1. UNCHANGED <<wire, dialer, broken, dialed>> /\ c <= dialed /\ handler[side][c] = "none"
      BY <1>11 DEF SetConnection
    <3>2. \A d \in Conns, s \in Sides :
            handler'[s][d] = IF s = side /\ d = c THEN "running" ELSE handler[s][d]
      <4>1. handler \in [Sides -> [Conns -> {"none", "running", "over"}]]
        BY <1>0
      <4> QED BY <1>11, <4>1 DEF SetConnection
    <3>3. \A s \in Sides : connection'[s] = IF s = side THEN c ELSE connection[s]
      <4>1. connection \in [Sides -> Conns \cup {None}]
        BY <1>0
      <4>2. connection' = [connection EXCEPT ![side] = c]
        BY <1>11 DEF SetConnection
      <4> QED BY <4>1, <4>2
    <3> QED BY <3>1, <3>2, <3>3
  <2>2. \A d \in Conns : d < dialed => handler'[dialer][d] = "over"
    <3>1. \A d \in Conns : d < dialed => handler[dialer][d] = "over"
      BY DEF NewestIsWhole
    <3>2. dialer' = dialer /\ dialer \in Sides /\ handler[side][c] = "none"
      BY <1>0, <2>1
    <3> QED BY <2>1, <3>1, <3>2
  <2>3. \A d \in Conns : d > dialed => d # c
    BY <1>0, <2>1 DEF Conns
  <2>4. \A s \in Sides : connection'[s] # None => handler'[s][connection'[s]] = "running"
    <3> TAKE s \in Sides
    <3>1. connection[s] # None => connection[s] \in Conns /\ handler[s][connection[s]] = "running"
      BY <1>0 DEF NewestIsWhole
    <3> QED BY <2>1, <3>1
  <2> QED BY <2>1, <2>2, <2>3, <2>4 DEF NewestIsWhole
<1>12. ASSUME NEW side \in Sides, NEW c \in Conns, Read(side, c) PROVE NewestIsWhole'
  <2>1. /\ UNCHANGED net /\ wire[c][side] # <<>> /\ handler[side][c] = "running"
        /\ \A d \in Conns, s \in Sides : <<d, s>> # <<c, side>> => wire'[d][s] = wire[d][s]
    BY <1>0, <1>12 DEF Read
  <2> QED BY <2>1 DEF NewestIsWhole, net
<1>13. ASSUME NEW side \in Sides, NEW c \in Conns, HandlerEnds(side, c), UnsetConnection(side, c)
       PROVE  NewestIsWhole'
  <2>1. /\ UNCHANGED <<dialer, broken, dialed>> /\ c \in broken
        /\ \A d \in Conns, s \in Sides :
             /\ handler'[s][d] = IF s = side /\ d = c THEN "over" ELSE handler[s][d]
             /\ wire'[d][s] = IF s = side /\ d = c THEN <<>> ELSE wire[d][s]
    BY <1>0, <1>13 DEF HandlerEnds
  <2>2. \A s \in Sides : connection'[s] = IF s = side /\ connection[s] = c THEN None ELSE connection[s]
    BY <1>0, <1>13 DEF UnsetConnection
  <2>3. \A s \in Sides : connection'[s] # None => handler'[s][connection'[s]] = "running"
    <3> TAKE s \in Sides
    <3>1. connection[s] # None => connection[s] \in Conns /\ handler[s][connection[s]] = "running"
      BY <1>0 DEF NewestIsWhole
    <3> QED BY <2>1, <2>2, <3>1
  <2>4. ~(c > dialed)
    BY <2>1 DEF NewestIsWhole
  <2>5. \A d \in Conns, s \in Sides :
          /\ d > dialed => handler'[s][d] = "none" /\ wire'[d][s] = <<>>
          /\ handler'[s][d] = "over" => d \in broken /\ wire'[d][s] = <<>>
    BY <2>1, <2>4 DEF NewestIsWhole
  <2>6. \A d \in Conns : d < dialed => handler'[dialer][d] = "over"
    BY <1>0, <2>1 DEF NewestIsWhole
  <2> QED BY <2>1, <2>3, <2>5, <2>6 DEF NewestIsWhole
<1>14. CASE UNCHANGED vars
  BY <1>1, <1>14 DEF vars
<1>15. CASE ServeNear
  BY <1>4, <1>5, <1>6, <1>15 DEF ServeNear
<1>16. CASE ServeFar
  BY <1>7, <1>8, <1>16 DEF ServeFar
<1>17. CASE Connections
  BY <1>9, <1>10, <1>11, <1>12, <1>13, <1>17 DEF Connections
<1> QED BY <1>3, <1>14, <1>15, <1>16, <1>17 DEF Next

\* At a dialer older connections have nothing left that could be overtaken.
LEMMA OvertakenStep ==
  ASSUME TypeOK, NewestIsWhole, OvertakenWhereFarListens, [Next]_vars
  PROVE  OvertakenWhereFarListens'
<1>1. ASSUME UNCHANGED <<overtaken, dialer>> PROVE OvertakenWhereFarListens'
  BY <1>1 DEF OvertakenWhereFarListens
<1>2. ASSUME NEW side \in Sides, NEW c \in Conns, Read(side, c) PROVE OvertakenWhereFarListens'
  <2>1. UNCHANGED dialer /\ overtaken' = (overtaken \/ Overtakes(side, c))
    BY <1>2 DEF Read, net
  <2>2. ASSUME Overtakes(side, c) PROVE dialer = "near"
    <3>1. PICK d \in Conns, r \in Remote : d < c /\ TakeBack(r) \in ToSet(wire[d]["far"])
      BY <2>2 DEF Overtakes
    <3>2. ~(c > dialed) /\ dialed \in Nat /\ dialer \in Sides
      BY <1>2, RemoteLinksAssumption DEF Read, NewestIsWhole, TypeOK
    <3>3. handler[dialer][d] = "over"
      BY <3>1, <3>2 DEF NewestIsWhole, Conns
    <3>4. wire[d]["far"] # <<>>
      BY <3>1 DEF ToSet
    <3>5. dialer # "far"
      BY <3>3, <3>4 DEF NewestIsWhole, Sides
    <3> QED BY <3>2, <3>5 DEF Sides
  <2> QED BY <2>1, <2>2 DEF OvertakenWhereFarListens
<1>3. CASE Calls
  BY <1>1, <1>3 DEF Calls, OnCloseNotify, RemoveNotify, Close, Call, net
<1>4. CASE ServeNear
  BY <1>1, <1>4 DEF ServeNear, NotifyMore, NotifyFirst, NotifyFails, UnnotifyMore, UnnotifyLast,
                    HandleRemoteMailboxClosed, net, history
<1>5. CASE ServeFar
  BY <1>1, <1>5 DEF ServeFar, Subscribe, SubscribeLate, Unsubscribe, HandleMailboxClosed, net, history
<1>6. ASSUME NEW side \in Sides, NEW c \in Conns, HandlerEnds(side, c) PROVE OvertakenWhereFarListens'
  BY <1>1, <1>6 DEF HandlerEnds
<1>7. CASE Connections
  BY <1>1, <1>2, <1>6, <1>7 DEF Connections, Dial, Break, SetConnection, history
<1> QED BY <1>1, <1>3, <1>4, <1>5, <1>7 DEF Next, vars, net, history

-----------------------------------------------------------------------------
(* Who asked is linked *)

\* Messages are known by their type and what they are about.
LEMMA NearMessageIs ==
  ASSUME NEW m \in InBox["near"]
  PROVE  /\ m.type = "NotifyRemote" => m = Notify(m.local, m.remote)
         /\ m.type = "UnnotifyRemote" => m = Unnotify(m.local, m.remote)
BY DEF InBox, NearMessages, ToNear, Notify, Unnotify

\* Requests of different links, and requests and removals, are different messages.
LEMMA NearMessagesDiffer ==
  ASSUME NEW l, NEW r, NEW k, NEW s
  PROVE  /\ Notify(l, r) # Unnotify(k, s)
         /\ Notify(l, r) = Notify(k, s) => l = k /\ r = s
         /\ Unnotify(l, r) = Unnotify(k, s) => l = k /\ r = s
         /\ Notify(l, r).type = "NotifyRemote" /\ Unnotify(l, r).type = "UnnotifyRemote"
BY DEF Notify, Unnotify

\* What AskedIsLinked says of one mailbox and another.
Safe(l, r) ==
  \/ <<l, r>> \in told
  \/ l \in links[r] /\ Unnotify(l, r) \notin ToSet(box["near"])
  \/ Stands(box["near"], Notify(l, r), Unnotify(l, r))

\* AskedIsLinked, one link at a time.
LEMMA AskedIsSafe ==
  ASSUME asked \subseteq Pairs
  PROVE  AskedIsLinked <=> \A l \in Local, r \in Remote : <<l, r>> \in asked => Safe(l, r)
BY DEF AskedIsLinked, Safe, Pairs

\* Something is added to the queue, no removal of this link.
LEMMA SafeAdd ==
  ASSUME TypeOK, NEW l \in Local, NEW r \in Remote, NEW m,
         box'["near"] = Append(box["near"], m), m # Unnotify(l, r), links'[r] = links[r],
         (Safe(l, r) /\ (<<l, r>> \in told => <<l, r>> \in told')) \/ m = Notify(l, r)
  PROVE  Safe(l, r)'
<1>1. box["near"] \in Seq(Messages)
  BY DEF TypeOK, Sides
<1> QED BY <1>1, AppendStands, AppendKeeps DEF Safe

\* The head of the queue is handled: if it asks for the link, the link is there now; no
\* link goes unless it was told or the head removes it.
LEMMA SafeTake ==
  ASSUME TypeOK, NEW l \in Local, NEW r \in Remote, Safe(l, r),
         box["near"] # <<>>, box'["near"] = Tail(box["near"]), told \subseteq told',
         Head(box["near"]) = Notify(l, r) => l \in links'[r] \/ <<l, r>> \in told',
         Head(box["near"]) # Unnotify(l, r) /\ l \in links[r] => l \in links'[r] \/ <<l, r>> \in told'
  PROVE  Safe(l, r)'
<1>1. box["near"] \in Seq(Messages)
  BY DEF TypeOK, Sides
<1>2. CASE <<l, r>> \in told
  BY <1>2 DEF Safe
<1>3. CASE l \in links[r] /\ Unnotify(l, r) \notin ToSet(box["near"])
  <2>1. Head(box["near"]) # Unnotify(l, r) /\ Unnotify(l, r) \notin ToSet(Tail(box["near"]))
    BY <1>1, <1>3, TailKeeps
  <2> QED BY <1>3, <2>1 DEF Safe
<1>4. CASE Stands(box["near"], Notify(l, r), Unnotify(l, r))
  BY <1>1, <1>4, TailStands DEF Safe
<1> QED BY <1>2, <1>3, <1>4 DEF Safe

\* Every step keeps those who asked linked.
LEMMA AskedStep ==
  ASSUME TypeOK, AskedIsLinked, [Next]_vars, TypeOK'
  PROVE  AskedIsLinked'
<1>1. /\ box["near"] \in Seq(InBox["near"]) /\ box \in [Sides -> Seq(Messages)]
      /\ links \in [Remote -> SUBSET Local] /\ asked \subseteq Pairs /\ asked' \subseteq Pairs
      /\ "near" \in Sides /\ "far" \in Sides
  BY DEF TypeOK, Sides
<1>2. \A l \in Local, r \in Remote : <<l, r>> \in asked => Safe(l, r)
  BY <1>1, AskedIsSafe
<1>3. ASSUME \A l \in Local, r \in Remote : <<l, r>> \in asked' => Safe(l, r)' PROVE AskedIsLinked'
  BY <1>1, <1>3 DEF AskedIsLinked, Safe, Pairs
<1>4. ASSUME UNCHANGED <<links, asked, told>>, box'["near"] = box["near"] PROVE AskedIsLinked'
  BY <1>2, <1>3, <1>4 DEF Safe
<1>5. ASSUME NEW k \in Local, NEW s \in Remote, OnCloseNotify(k, s) PROVE AskedIsLinked'
  <2>1. /\ box'["near"] = Append(box["near"], Notify(k, s)) /\ links' = links
        /\ asked' = asked \cup {<<k, s>>} /\ told' = told \ {<<k, s>>}
    BY <1>1, <1>5 DEF OnCloseNotify, Call
  <2>2. ASSUME NEW l \in Local, NEW r \in Remote, <<l, r>> \in asked' PROVE Safe(l, r)'
    <3>1. Notify(k, s) # Unnotify(l, r)
      BY NearMessagesDiffer
    <3>2. CASE <<l, r>> = <<k, s>>
      <4>1. Notify(k, s) = Notify(l, r)
        BY <3>2
      <4> QED BY <2>1, <3>1, <4>1, SafeAdd
    <3>3. CASE <<l, r>> # <<k, s>>
      <4>1. <<l, r>> \in asked /\ (<<l, r>> \in told => <<l, r>> \in told')
        BY <2>1, <2>2, <3>3
      <4> QED BY <1>2, <2>1, <3>1, <4>1, SafeAdd
    <3> QED BY <3>2, <3>3
  <2> QED BY <1>3, <2>2
<1>6. ASSUME NEW k \in Local, NEW s \in Remote, RemoveNotify(k, s) PROVE AskedIsLinked'
  <2>1. /\ box'["near"] = Append(box["near"], Unnotify(k, s)) /\ links' = links
        /\ asked' = asked \ {<<k, s>>} /\ told' = told
    BY <1>1, <1>6 DEF RemoveNotify, Call
  <2>2. ASSUME NEW l \in Local, NEW r \in Remote, <<l, r>> \in asked' PROVE Safe(l, r)'
    <3>1. <<l, r>> \in asked /\ Unnotify(k, s) # Unnotify(l, r)
      BY <2>1, <2>2, NearMessagesDiffer
    <3> QED BY <1>2, <2>1, <3>1, SafeAdd
  <2> QED BY <1>3, <2>2
<1>7. ASSUME NEW r \in Remote, Close(r) PROVE AskedIsLinked'
  BY <1>1, <1>4, <1>7 DEF Close, Call
<1>8. ASSUME NEW m, NEW type, Receive("near", m, type), UNCHANGED asked, told \subseteq told',
             \A l \in Local, r \in Remote :
               /\ m = Notify(l, r) => l \in links'[r] \/ <<l, r>> \in told'
               /\ m # Unnotify(l, r) /\ l \in links[r] => l \in links'[r] \/ <<l, r>> \in told'
      PROVE  AskedIsLinked'
  <2>1. box["near"] # <<>> /\ m = Head(box["near"]) /\ box'["near"] = Tail(box["near"])
    BY <1>1, <1>8 DEF Receive
  <2>2. ASSUME NEW l \in Local, NEW r \in Remote, <<l, r>> \in asked' PROVE Safe(l, r)'
    BY <1>2, <1>8, <2>1, <2>2, SafeTake
  <2> QED BY <1>3, <2>2
<1>9. ASSUME NEW m, NEW type, Receive("near", m, type)
      PROVE  /\ m.type = type /\ m.remote \in Remote
             /\ type = "NotifyRemote" => m.local \in Local /\ m = Notify(m.local, m.remote)
             /\ type = "UnnotifyRemote" => m.local \in Local /\ m = Unnotify(m.local, m.remote)
  BY <1>1, <1>9, ReceiveTyped, BoxesAndWires, NearMessageIs
<1>10. ASSUME NEW m, NotifyMore(m) \/ NotifyFirst(m) PROVE AskedIsLinked'
  <2>1. /\ Receive("near", m, "NotifyRemote") /\ UNCHANGED <<asked, told>>
        /\ links' = [links EXCEPT ![m.remote] = links[m.remote] \cup {m.local}]
    BY <1>10 DEF NotifyMore, NotifyFirst, history
  <2>2. m.local \in Local /\ m.remote \in Remote /\ m = Notify(m.local, m.remote)
    BY <1>9, <2>1
  <2>3. \A l \in Local, r \in Remote :
          /\ m = Notify(l, r) => l \in links'[r]
          /\ l \in links[r] => l \in links'[r]
    <3> TAKE l \in Local, r \in Remote
    <3>1. m = Notify(l, r) => l = m.local /\ r = m.remote
      BY <2>2, NearMessagesDiffer
    <3>2. \A s \in Remote : links'[s] = IF s = m.remote THEN links[s] \cup {m.local} ELSE links[s]
      BY <1>1, <2>1, <2>2
    <3> QED BY <3>1, <3>2
  <2> QED BY <1>8, <2>1, <2>3
<1>11. ASSUME NEW m, NotifyFails(m) PROVE AskedIsLinked'
  <2>1. /\ Receive("near", m, "NotifyRemote") /\ UNCHANGED asked
        /\ told' = told \cup ({<<m.local, m.remote>>} \cup {p \in Pairs : p[1] \in links[p[2]]})
    BY <1>11 DEF NotifyFails, Tell
  <2>2. m.local \in Local /\ m.remote \in Remote /\ m = Notify(m.local, m.remote)
    BY <1>9, <2>1
  <2>3. \A l \in Local, r \in Remote :
          /\ m = Notify(l, r) => <<l, r>> \in told'
          /\ l \in links[r] => <<l, r>> \in told'
    BY <2>1, <2>2, NearMessagesDiffer DEF Pairs
  <2>4. told \subseteq told'
    BY <2>1
  <2> QED BY <1>8, <2>1, <2>3, <2>4
<1>12. ASSUME NEW m, UnnotifyMore(m) \/ UnnotifyLast(m) PROVE AskedIsLinked'
  <2>1. /\ Receive("near", m, "UnnotifyRemote") /\ UNCHANGED <<asked, told>>
        /\ links' = [links EXCEPT ![m.remote] = links[m.remote] \ {m.local}]
    BY <1>12 DEF UnnotifyMore, UnnotifyLast, history
  <2>2. m.local \in Local /\ m.remote \in Remote /\ m = Unnotify(m.local, m.remote)
    BY <1>9, <2>1
  <2>3. \A l \in Local, r \in Remote :
          /\ m # Notify(l, r)
          /\ m # Unnotify(l, r) /\ l \in links[r] => l \in links'[r]
    <3> TAKE l \in Local, r \in Remote
    <3>1. m # Notify(l, r)
      BY <2>2, NearMessagesDiffer
    <3>2. m # Unnotify(l, r) => ~(l = m.local /\ r = m.remote)
      BY <2>2
    <3> QED BY <1>1, <2>1, <2>2, <3>1, <3>2
  <2> QED BY <1>8, <2>1, <2>3
<1>13. ASSUME NEW m, HandleRemoteMailboxClosed(m) PROVE AskedIsLinked'
  <2>1. /\ Receive("near", m, "RemoteMailboxClosed") /\ UNCHANGED asked
        /\ told' = told \cup links[m.remote] \X {m.remote}
        /\ links' = [links EXCEPT ![m.remote] = {}]
    BY <1>13 DEF HandleRemoteMailboxClosed, Tell
  <2>2. m.remote \in Remote /\ m.type = "RemoteMailboxClosed"
    BY <1>9, <2>1
  <2>3. \A l \in Local, r \in Remote :
          /\ m # Notify(l, r)
          /\ l \in links[r] => l \in links'[r] \/ <<l, r>> \in told'
    BY <1>1, <2>1, <2>2, NearMessagesDiffer
  <2>4. told \subseteq told'
    BY <2>1
  <2> QED BY <1>8, <2>1, <2>3, <2>4
<1>14. CASE ServeFar
  <2>1. ASSUME NEW m, Subscribe(m) \/ SubscribeLate(m) \/ Unsubscribe(m) \/ HandleMailboxClosed(m)
        PROVE  UNCHANGED <<links, asked, told>> /\ box'["near"] = box["near"]
    BY <1>1, <2>1 DEF Subscribe, SubscribeLate, Unsubscribe, HandleMailboxClosed, Receive, history
  <2> QED BY <1>4, <1>14, <2>1 DEF ServeFar
<1>15. ASSUME NEW side \in Sides, NEW c \in Conns, Read(side, c) PROVE AskedIsLinked'
  <2>1. UNCHANGED <<links, asked, told>>
    BY <1>15 DEF Read
  <2>2. CASE side = "far"
    BY <1>1, <1>4, <1>15, <2>1, <2>2 DEF Read
  <2>3. CASE side = "near"
    <3> DEFINE m == Head(wire[c]["near"])
    <3>1. box'["near"] = Append(box["near"], m)
      BY <1>1, <1>15, <2>3 DEF Read
    <3>2. m.type = "RemoteMailboxClosed"
      <4>1. wire[c]["near"] \in Seq(OnWire["near"]) /\ wire[c]["near"] # <<>>
        BY <1>1, <1>15, <2>3 DEF Read, TypeOK
      <4>2. m \in OnWire["near"]
        BY <4>1, TailKeeps
      <4> QED BY <4>2 DEF OnWire, ToNear
    <3> HIDE DEF m
    <3>3. ASSUME NEW l \in Local, NEW r \in Remote, <<l, r>> \in asked' PROVE Safe(l, r)'
      <4>1. m # Unnotify(l, r)
        BY <3>2, NearMessagesDiffer
      <4> QED BY <1>2, <2>1, <3>1, <3>3, <4>1, SafeAdd
    <3> QED BY <1>3, <3>3
  <2> QED BY <2>2, <2>3 DEF Sides
<1>16. ASSUME NEW side \in Sides, NEW c \in Conns, HandlerEnds(side, c) PROVE AskedIsLinked'
  BY <1>4, <1>16 DEF HandlerEnds
<1>17. CASE Connections
  BY <1>4, <1>15, <1>16, <1>17 DEF Connections, Dial, Break, SetConnection, history
<1>18. CASE ServeNear
  BY <1>10, <1>11, <1>12, <1>13, <1>18 DEF ServeNear
<1>19. CASE Calls
  BY <1>5, <1>6, <1>7, <1>19 DEF Calls
<1>20. CASE UNCHANGED vars
  BY <1>4, <1>20 DEF vars, history
<1> QED BY <1>14, <1>17, <1>18, <1>19, <1>20 DEF Next

-----------------------------------------------------------------------------
(* Who is linked is owed a notice *)

Closed(r) == [type |-> "MailboxClosed", remote |-> r]
RemoteClosed(r) == [type |-> "RemoteMailboxClosed", remote |-> r]

\* The news of r has left the far side.
NearNews(r) ==
  \/ RemoteClosed(r) \in ToSet(box["near"])
  \/ \E c \in Conns : RemoteClosed(r) \in ToSet(wire[c]["near"])

\* What SubscribedTo says of the far side itself.
AtFar(r) ==
  \/ r \in notify /\ TakeBack(r) \notin ToSet(box["far"])
  \/ Stands(box["far"], Ask(r), TakeBack(r))

\* Covered, split into what is at the far side and what is on its way.
LEMMA CoveredParts ==
  ASSUME NEW r
  PROVE  /\ NewsUnderWay(r) <=> Closed(r) \in ToSet(box["far"]) \/ NearNews(r)
         /\ SubscribedTo(r) <=> AtFar(r) /\ \A c \in Conns : TakeBack(r) \notin ToSet(wire[c]["far"])
BY DEF NewsUnderWay, NearNews, Closed, RemoteClosed, SubscribedTo, AtFar

\* The messages of one mailbox are not those of another, nor of another type.
LEMMA FarMessagesDiffer ==
  ASSUME NEW r, NEW s
  PROVE  /\ Ask(r) # TakeBack(s) /\ Ask(r) # Closed(s) /\ TakeBack(r) # Closed(s)
         /\ Ask(r) = Ask(s) => r = s
         /\ TakeBack(r) = TakeBack(s) => r = s
         /\ Closed(r) = Closed(s) => r = s
         /\ RemoteClosed(r) = RemoteClosed(s) => r = s
         /\ RemoteClosed(r).type = "RemoteMailboxClosed"
         /\ Matters(Ask(r)) /\ Matters(RemoteClosed(r))
BY DEF Ask, TakeBack, Closed, RemoteClosed, Matters

\* A message is known by its type and its mailbox.
LEMMA FarMessageIs ==
  /\ \A m \in InBox["far"] :
       /\ m.type = "NotifyNodeOnTerminate" => m = Ask(m.remote)
       /\ m.type = "RemoveNotifyNodeOnClose" => m = TakeBack(m.remote)
       /\ m.type = "MailboxClosed" => m = Closed(m.remote)
  /\ \A m \in InBox["near"] : m.type = "RemoteMailboxClosed" => m = RemoteClosed(m.remote)
BY DEF InBox, NearMessages, FarMessages, ToNear, ToFar, Ask, TakeBack, Closed, RemoteClosed

\* A mailbox stays covered when what covers it at the far side does, and nothing
\* changes on the way there.
LEMMA KeptAtFar ==
  ASSUME NEW r, Covered(r),
         \A c \in Conns : wire'[c]["far"] = wire[c]["far"],
         Closed(r) \in ToSet(box["far"]) => Closed(r) \in ToSet(box'["far"]) \/ NearNews(r)',
         NearNews(r) => NearNews(r)',
         AtFar(r) => AtFar(r)' \/ Closed(r) \in ToSet(box'["far"])
  PROVE  Covered(r)'
<1>1. CASE NewsUnderWay(r)
  <2>1. Closed(r) \in ToSet(box'["far"]) \/ NearNews(r)'
    BY <1>1, CoveredParts
  <2> QED BY <2>1 DEF Covered, NewsUnderWay, NearNews, Closed, RemoteClosed
<1>2. CASE SubscribedTo(r)
  <2>1. AtFar(r) /\ \A c \in Conns : TakeBack(r) \notin ToSet(wire[c]["far"])
    BY <1>2, CoveredParts
  <2>2. CASE AtFar(r)'
    BY <2>1, <2>2 DEF Covered, SubscribedTo, AtFar
  <2>3. CASE Closed(r) \in ToSet(box'["far"])
    BY <2>3 DEF Covered, NewsUnderWay, Closed
  <2> QED BY <2>1, <2>2, <2>3
<1>3. CASE \E c \in Conns : AskedOver(c, r)
  BY <1>3 DEF Covered, AskedOver
<1> QED BY <1>1, <1>2, <1>3 DEF Covered

\* ... or when something else is sent to the far side.
LEMMA KeptWhenSent ==
  ASSUME TypeOK, NEW r, Covered(r), NEW d \in Conns, NEW m, m # TakeBack(r),
         wire'[d]["far"] = Append(wire[d]["far"], m),
         \A c \in Conns \ {d} : wire'[c]["far"] = wire[c]["far"],
         UNCHANGED notify, box'["far"] = box["far"],
         NearNews(r) => NearNews(r)'
  PROVE  Covered(r)'
<1>1. wire[d]["far"] \in Seq(Messages)
  BY DEF TypeOK, Sides
<1>2. \A c \in Conns : /\ TakeBack(r) \notin ToSet(wire[c]["far"]) => TakeBack(r) \notin ToSet(wire'[c]["far"])
                       /\ Stands(wire[c]["far"], Ask(r), TakeBack(r))
                            => Stands(wire'[c]["far"], Ask(r), TakeBack(r))
  <2> TAKE c \in Conns
  <2>1. CASE c = d
    BY <1>1, <2>1, AppendStands
  <2>2. CASE c # d
    BY <2>2
  <2> QED BY <2>1, <2>2
<1>3. CASE NewsUnderWay(r)
  <2>1. Closed(r) \in ToSet(box'["far"]) \/ NearNews(r)'
    BY <1>3, CoveredParts
  <2> QED BY <2>1 DEF Covered, NewsUnderWay, NearNews, Closed, RemoteClosed
<1>4. CASE SubscribedTo(r)
  BY <1>2, <1>4 DEF Covered, SubscribedTo
<1>5. CASE \E c \in Conns : AskedOver(c, r)
  BY <1>2, <1>5 DEF Covered, AskedOver
<1> QED BY <1>3, <1>4, <1>5 DEF Covered

\* The near side handles the head of its queue: no news of r, unless it is that.
LEMMA NewsTaken ==
  ASSUME TypeOK, NEW r, NearNews(r), NEW m, NEW type, Receive("near", m, type), m # RemoteClosed(r),
         \A c \in Conns : wire'[c]["near"] = wire[c]["near"]
  PROVE  NearNews(r)'
<1>1. /\ box["near"] \in Seq(Messages) /\ box["near"] # <<>> /\ m = Head(box["near"])
      /\ box'["near"] = Tail(box["near"])
  BY DEF TypeOK, Receive, Sides
<1>2. RemoteClosed(r) \in ToSet(box["near"]) => RemoteClosed(r) \in ToSet(box'["near"])
  BY <1>1, TailKeeps
<1> QED BY <1>2 DEF NearNews

\* The first link to a mailbox: the request is the last thing on the newest
\* connection, and there is none later that could take it back.
LEMMA OwedFirst ==
  ASSUME TypeOK, NewestIsWhole, NEW r \in Remote, NEW m, NotifyFirst(m), ~lost',
         links[r] # {} => Covered(r), links'[r] # {}
  PROVE  Covered(r)'
<1>1. /\ m.remote \in Remote /\ Receive("near", m, "NotifyRemote")
      /\ links[m.remote] = {} /\ links' = [links EXCEPT ![m.remote] = {m.local}]
      /\ UNCHANGED notify /\ box'["far"] = box["far"]
  BY ReceiveTyped, BoxesAndWires DEF NotifyFirst, Sides
<1>2. Transmit("near", Ask(m.remote))
  BY <1>1, FarMessagesDiffer DEF NotifyFirst, Vanish
<1>3. Other("near") = "far" /\ "near" \in Sides /\ "near" # "far"
  BY DEF Other, Sides
<1>4. /\ dialed \in Conns
      /\ wire'[dialed]["far"] = Append(wire[dialed]["far"], Ask(m.remote))
      /\ \A c \in Conns \ {dialed} : wire'[c]["far"] = wire[c]["far"]
      /\ \A c \in Conns : wire'[c]["near"] = wire[c]["near"]
  BY <1>2, <1>3, TransmitOnNewest
<1>5. CASE r = m.remote
  <2>1. wire[dialed]["far"] \in Seq(Messages) /\ "far" \in Sides
    BY <1>4 DEF TypeOK, Sides
  <2>2. Stands(wire'[dialed]["far"], Ask(r), TakeBack(r))
    BY <1>4, <1>5, <2>1, AppendStands
  <2>3. \A d \in Conns : d > dialed => TakeBack(r) \notin ToSet(wire'[d]["far"])
    <3> SUFFICES ASSUME NEW d \in Conns, d > dialed PROVE TakeBack(r) \notin ToSet(wire'[d]["far"])
      OBVIOUS
    <3>1. d # dialed /\ wire[d]["far"] = <<>>
      BY <1>4, <2>1 DEF NewestIsWhole, Conns
    <3>2. wire'[d]["far"] = <<>>
      BY <1>4, <3>1
    <3> QED BY <3>2 DEF ToSet
  <2> QED BY <1>4, <2>2, <2>3 DEF Covered, AskedOver
<1>6. CASE r # m.remote
  <2>1. Covered(r)
    BY <1>1, <1>6 DEF TypeOK
  <2>2. NearNews(r) => NearNews(r)'
    BY <1>1, <1>4, NewsTaken, FarMessagesDiffer DEF Receive
  <2>3. Ask(m.remote) # TakeBack(r)
    BY FarMessagesDiffer
  <2> QED BY <1>1, <1>4, <2>1, <2>2, <2>3, KeptWhenSent
<1> QED BY <1>5, <1>6

\* The last link to a mailbox goes: the others are still covered.
LEMMA OwedLast ==
  ASSUME TypeOK, NewestIsWhole, NEW r \in Remote, NEW m, UnnotifyLast(m), Covered(r), links'[r] # {}
  PROVE  Covered(r)'
<1>1. /\ m.remote \in Remote /\ Receive("near", m, "UnnotifyRemote")
      /\ links' = [links EXCEPT ![m.remote] = {}]
      /\ UNCHANGED notify /\ box'["far"] = box["far"]
  BY ReceiveTyped, BoxesAndWires DEF UnnotifyLast, Sides
<1>2. r # m.remote
  BY <1>1 DEF TypeOK
<1>3. Other("near") = "far" /\ "near" \in Sides /\ "near" # "far"
  BY DEF Other, Sides
<1>4. CASE UNCHANGED wire
  <2>1. NearNews(r) => NearNews(r)'
    BY <1>1, <1>4, NewsTaken, FarMessagesDiffer DEF Receive
  <2>2. AtFar(r) => AtFar(r)'
    BY <1>1 DEF AtFar
  <2> QED BY <1>1, <1>4, <2>1, <2>2, KeptAtFar
<1>5. CASE Transmit("near", TakeBack(m.remote))
  <2>1. /\ dialed \in Conns
        /\ wire'[dialed]["far"] = Append(wire[dialed]["far"], TakeBack(m.remote))
        /\ \A c \in Conns \ {dialed} : wire'[c]["far"] = wire[c]["far"]
        /\ \A c \in Conns : wire'[c]["near"] = wire[c]["near"]
    BY <1>3, <1>5, TransmitOnNewest
  <2>2. NearNews(r) => NearNews(r)'
    BY <1>1, <2>1, NewsTaken, FarMessagesDiffer DEF Receive
  <2>3. TakeBack(m.remote) # TakeBack(r)
    BY <1>2, FarMessagesDiffer
  <2> QED BY <1>1, <2>1, <2>2, <2>3, KeptWhenSent
<1> QED BY <1>4, <1>5 DEF UnnotifyLast, Send, Vanish

\* The far side handles the head of its queue: a request subscribes, news is sent.
LEMMA OwedFar ==
  ASSUME TypeOK, NewestIsWhole, NEW r \in Remote, NEW m, Covered(r), ~lost',
         Subscribe(m) \/ SubscribeLate(m) \/ Unsubscribe(m) \/ HandleMailboxClosed(m)
  PROVE  Covered(r)'
<1> DEFINE q == box["far"]
<1>0. /\ q \in Seq(InBox["far"]) /\ q # <<>> /\ m = Head(q) /\ "far" \in Sides /\ "near" \in Sides
      /\ box \in [Sides -> Seq(Messages)] /\ "near" # "far"
  <2>1. q # <<>> /\ m = Head(q)
    BY DEF Subscribe, SubscribeLate, Unsubscribe, HandleMailboxClosed, Receive
  <2> QED BY <2>1 DEF TypeOK, Sides
<1>1. m \in InBox["far"] /\ m.remote \in Remote /\ Tail(q) \in Seq(InBox["far"])
  BY <1>0, TailKeeps, BoxesAndWires
<1>2. /\ Closed(r) \in ToSet(q) => Closed(r) \in ToSet(Tail(q)) \/ m = Closed(r)
      /\ TakeBack(r) \notin ToSet(q) => m # TakeBack(r) /\ TakeBack(r) \notin ToSet(Tail(q))
      /\ Stands(q, Ask(r), TakeBack(r)) =>
           \/ Stands(Tail(q), Ask(r), TakeBack(r))
           \/ m = Ask(r) /\ TakeBack(r) \notin ToSet(Tail(q))
  BY <1>0, TailKeeps, TailStands
<1>3. box'["near"] = box["near"]
  <2>1. ASSUME NEW queue, box' = [box EXCEPT !["far"] = queue] PROVE box'["near"] = box["near"]
    BY <1>0, <2>1
  <2>2. CASE SubscribeLate(m)
    BY <2>1, <2>2 DEF SubscribeLate
  <2>3. CASE Subscribe(m) \/ Unsubscribe(m) \/ HandleMailboxClosed(m)
    BY <2>1, <2>3 DEF Subscribe, Unsubscribe, HandleMailboxClosed, Receive
  <2> QED BY <2>2, <2>3
<1>4. CASE Subscribe(m)
  <2>1. /\ box'["far"] = Tail(q) /\ UNCHANGED wire /\ notify' = notify \cup {m.remote}
        /\ m = Ask(m.remote)
    BY <1>0, <1>1, <1>4, FarMessageIs DEF Subscribe, Receive
  <2>2. NearNews(r) => NearNews(r)'
    BY <1>3, <2>1 DEF NearNews
  <2>3. m # Closed(r) /\ (m = Ask(r) => r \in notify')
    BY <2>1, FarMessagesDiffer
  <2>4. AtFar(r) => AtFar(r)'
    BY <1>2, <2>1, <2>3 DEF AtFar
  <2> QED BY <1>2, <2>1, <2>2, <2>3, <2>4, KeptAtFar
<1>5. CASE SubscribeLate(m)
  <2>1. /\ box'["far"] = Append(Tail(q), Closed(m.remote)) /\ UNCHANGED <<wire, notify>>
        /\ m = Ask(m.remote)
    BY <1>0, <1>1, <1>5, FarMessageIs DEF SubscribeLate, Closed, history
  <2>2. NearNews(r) => NearNews(r)'
    BY <1>3, <2>1 DEF NearNews
  <2>3. m # Closed(r) /\ Closed(m.remote) # TakeBack(r) /\ (m = Ask(r) => m.remote = r)
    BY <2>1, FarMessagesDiffer
  <2>4. /\ Closed(r) \in ToSet(Tail(q)) => Closed(r) \in ToSet(box'["far"])
        /\ m.remote = r => Closed(r) \in ToSet(box'["far"])
        /\ TakeBack(r) \notin ToSet(Tail(q)) => TakeBack(r) \notin ToSet(box'["far"])
        /\ Stands(Tail(q), Ask(r), TakeBack(r)) => Stands(box'["far"], Ask(r), TakeBack(r))
    <3> DEFINE rest == Tail(q)
    <3>1. rest \in Seq(InBox["far"]) /\ box'["far"] = Append(rest, Closed(m.remote))
      BY <1>1, <2>1
    <3> HIDE DEF rest
    <3>2. /\ Closed(r) \in ToSet(rest) => Closed(r) \in ToSet(box'["far"])
          /\ m.remote = r => Closed(r) \in ToSet(box'["far"])
      BY <3>1, AppendKeeps
    <3>3. /\ TakeBack(r) \notin ToSet(rest) => TakeBack(r) \notin ToSet(box'["far"])
          /\ Stands(rest, Ask(r), TakeBack(r)) => Stands(box'["far"], Ask(r), TakeBack(r))
      BY <2>3, <3>1, AppendStands
    <3> QED BY <3>2, <3>3 DEF rest
  <2>5. AtFar(r) => AtFar(r)' \/ Closed(r) \in ToSet(box'["far"])
    BY <1>2, <2>1, <2>3, <2>4 DEF AtFar
  <2> QED BY <1>2, <2>1, <2>2, <2>3, <2>4, <2>5, KeptAtFar
<1>6. CASE Unsubscribe(m)
  <2>1. /\ box'["far"] = Tail(q) /\ UNCHANGED wire /\ notify' = notify \ {m.remote}
        /\ m = TakeBack(m.remote)
    BY <1>0, <1>1, <1>6, FarMessageIs DEF Unsubscribe, Receive
  <2>2. NearNews(r) => NearNews(r)'
    BY <1>3, <2>1 DEF NearNews
  <2>3. m # Closed(r) /\ m # Ask(r) /\ (m # TakeBack(r) => m.remote # r)
    BY <2>1, FarMessagesDiffer
  <2>4. AtFar(r) => AtFar(r)'
    BY <1>2, <2>1, <2>3 DEF AtFar
  <2> QED BY <1>2, <2>1, <2>2, <2>3, <2>4, KeptAtFar
<1>7. CASE HandleMailboxClosed(m)
  <2>1. /\ box'["far"] = Tail(q) /\ UNCHANGED notify
        /\ m = Closed(m.remote) /\ Send("far", RemoteClosed(m.remote))
    BY <1>0, <1>1, <1>7, FarMessageIs DEF HandleMailboxClosed, Receive, RemoteClosed
  <2>2. Transmit("far", RemoteClosed(m.remote))
    BY <2>1, FarMessagesDiffer DEF Send, Vanish
  <2>3. Other("far") = "near"
    BY DEF Other
  <2>4. /\ dialed \in Conns
        /\ wire'[dialed]["near"] = Append(wire[dialed]["near"], RemoteClosed(m.remote))
        /\ \A c \in Conns \ {dialed} : wire'[c]["near"] = wire[c]["near"]
        /\ \A c \in Conns : wire'[c]["far"] = wire[c]["far"]
    BY <1>0, <2>2, <2>3, TransmitOnNewest
  <2>5. wire[dialed]["near"] \in Seq(Messages)
    BY <1>0, <2>4 DEF TypeOK
  <2>6. /\ RemoteClosed(r) \in ToSet(wire[dialed]["near"]) => RemoteClosed(r) \in ToSet(wire'[dialed]["near"])
        /\ m.remote = r => RemoteClosed(r) \in ToSet(wire'[dialed]["near"])
    BY <2>4, <2>5, AppendKeeps
  <2>7. (NearNews(r) => NearNews(r)') /\ (m.remote = r => NearNews(r)')
    BY <1>3, <2>4, <2>6 DEF NearNews
  <2>8. m # Ask(r) /\ m # TakeBack(r) /\ (m = Closed(r) => m.remote = r)
    BY <2>1, FarMessagesDiffer
  <2>9. AtFar(r) => AtFar(r)'
    BY <1>2, <2>1, <2>8 DEF AtFar
  <2> QED BY <1>2, <2>1, <2>4, <2>7, <2>8, <2>9, KeptAtFar
<1> QED BY <1>4, <1>5, <1>6, <1>7

\* A request is read: what it asks for is no longer taken back by an older removal,
\* or it was overtaken.
LEMMA OwedRead ==
  ASSUME TypeOK, NEW r \in Remote, NEW c \in Conns, Read("far", c), ~overtaken', Covered(r)
  PROVE  Covered(r)'
<1> DEFINE q == wire[c]["far"]
           m == Head(q)
           b == box["far"]
<1>0. "near" \in Sides /\ "far" \in Sides /\ "near" # "far"
  BY DEF Sides
<1>1. /\ q \in Seq(Messages) /\ q # <<>> /\ b \in Seq(Messages) /\ UNCHANGED notify
      /\ box'["far"] = Append(b, m) /\ box'["near"] = box["near"]
      /\ wire'[c]["far"] = Tail(q)
      /\ \A d \in Conns \ {c} : wire'[d]["far"] = wire[d]["far"]
      /\ \A d \in Conns : wire'[d]["near"] = wire[d]["near"]
  BY <1>0 DEF Read, TypeOK
<1>2. /\ Closed(r) \in ToSet(b) => Closed(r) \in ToSet(box'["far"])
      /\ m # TakeBack(r) /\ TakeBack(r) \notin ToSet(b) => TakeBack(r) \notin ToSet(box'["far"])
      /\ m # TakeBack(r) /\ Stands(b, Ask(r), TakeBack(r)) => Stands(box'["far"], Ask(r), TakeBack(r))
      /\ m = Ask(r) => Stands(box'["far"], Ask(r), TakeBack(r))
  <2> HIDE DEF m, b
  <2>1. Closed(r) \in ToSet(b) => Closed(r) \in ToSet(box'["far"])
    BY <1>1, AppendKeeps
  <2>2. /\ m # TakeBack(r) /\ TakeBack(r) \notin ToSet(b) => TakeBack(r) \notin ToSet(box'["far"])
        /\ m # TakeBack(r) /\ Stands(b, Ask(r), TakeBack(r)) => Stands(box'["far"], Ask(r), TakeBack(r))
        /\ m = Ask(r) => Stands(box'["far"], Ask(r), TakeBack(r))
    BY <1>1, AppendStands
  <2> QED BY <2>1, <2>2
<1>3. /\ m \in ToSet(q)
      /\ TakeBack(r) \notin ToSet(q) => TakeBack(r) \notin ToSet(Tail(q))
      /\ Stands(q, Ask(r), TakeBack(r)) =>
           \/ Stands(Tail(q), Ask(r), TakeBack(r))
           \/ m = Ask(r) /\ TakeBack(r) \notin ToSet(Tail(q))
  <2> HIDE DEF q
  <2> QED BY <1>1, TailKeeps, TailStands
<1>4. \A d \in Conns : TakeBack(r) \notin ToSet(wire[d]["far"]) => TakeBack(r) \notin ToSet(wire'[d]["far"])
  BY <1>1, <1>3
<1>5. CASE NewsUnderWay(r)
  <2>1. Closed(r) \in ToSet(box'["far"]) \/ NearNews(r)'
    BY <1>1, <1>2, <1>5, CoveredParts DEF NearNews
  <2> QED BY <2>1 DEF Covered, NewsUnderWay, NearNews, Closed, RemoteClosed
<1>6. CASE SubscribedTo(r)
  <2>1. m # TakeBack(r)
    BY <1>3, <1>6 DEF SubscribedTo
  <2> QED BY <1>1, <1>2, <1>4, <1>6, <2>1 DEF Covered, SubscribedTo
<1>7. ASSUME NEW d \in Conns, AskedOver(d, r) PROVE Covered(r)'
  <2>1. /\ Stands(wire[d]["far"], Ask(r), TakeBack(r))
        /\ \A e \in Conns : e > d => TakeBack(r) \notin ToSet(wire[e]["far"])
    BY <1>7 DEF AskedOver
  <2>2. \A e \in Conns : e > d => TakeBack(r) \notin ToSet(wire'[e]["far"])
    BY <1>4, <2>1
  <2>3. CASE Stands(wire'[d]["far"], Ask(r), TakeBack(r))
    BY <2>2, <2>3 DEF Covered, AskedOver
  <2>4. CASE ~Stands(wire'[d]["far"], Ask(r), TakeBack(r))
    <3>1. d = c /\ m = Ask(r) /\ TakeBack(r) \notin ToSet(Tail(q))
      BY <1>1, <1>3, <2>1, <2>4
    <3>2. \A e \in Conns : e < c => TakeBack(r) \notin ToSet(wire[e]["far"])
      BY <3>1 DEF Read, Overtakes
    <3>3. \A e \in Conns : TakeBack(r) \notin ToSet(wire'[e]["far"])
      <4> TAKE e \in Conns
      <4>1. e < c \/ e = c \/ e > c
        BY RemoteLinksAssumption DEF Conns
      <4> QED BY <1>1, <1>4, <2>2, <3>1, <3>2, <4>1
    <3> QED BY <1>2, <3>1, <3>3 DEF Covered, SubscribedTo
  <2> QED BY <2>3, <2>4
<1> QED BY <1>5, <1>6, <1>7 DEF Covered

\* A handler ends: if what it did not read covered a mailbox, that is lost.
LEMMA OwedEnds ==
  ASSUME TypeOK, NEW r \in Remote, NEW side \in Sides, NEW c \in Conns, HandlerEnds(side, c),
         ~lost', Covered(r)
  PROVE  Covered(r)'
<1>1. /\ UNCHANGED <<notify, box>>
      /\ \A d \in Conns, s \in Sides : wire'[d][s] = IF d = c /\ s = side THEN <<>> ELSE wire[d][s]
      /\ ~lost /\ \A m \in ToSet(wire[c][side]) : ~Matters(m)
  BY DEF HandlerEnds, TypeOK
<1>2. Matters(Ask(r)) /\ Matters(RemoteClosed(r)) /\ "near" \in Sides /\ "far" \in Sides
  BY FarMessagesDiffer DEF Sides
<1>3. ToSet(<<>>) = {}
  BY DEF ToSet
<1>4. \A d \in Conns : TakeBack(r) \notin ToSet(wire[d]["far"]) => TakeBack(r) \notin ToSet(wire'[d]["far"])
  BY <1>1, <1>2, <1>3
<1>5. CASE NewsUnderWay(r)
  <2>1. Closed(r) \in ToSet(box["far"]) \/ NearNews(r)
    BY <1>5, CoveredParts
  <2>2. \A d \in Conns : RemoteClosed(r) \in ToSet(wire[d]["near"]) => RemoteClosed(r) \in ToSet(wire'[d]["near"])
    BY <1>1, <1>2
  <2> QED BY <1>1, <2>1, <2>2 DEF Covered, NewsUnderWay, NearNews, Closed, RemoteClosed
<1>6. CASE SubscribedTo(r)
  BY <1>1, <1>4, <1>6 DEF Covered, SubscribedTo
<1>7. ASSUME NEW d \in Conns, AskedOver(d, r) PROVE Covered(r)'
  <2>1. Ask(r) \in ToSet(wire[d]["far"])
    BY <1>7 DEF AskedOver, Stands, ToSet
  <2>2. wire'[d]["far"] = wire[d]["far"]
    BY <1>1, <1>2, <2>1
  <2> QED BY <1>4, <1>7, <2>2 DEF Covered, AskedOver
<1> QED BY <1>5, <1>6, <1>7 DEF Covered

\* A mailbox closes: its own news is queued if it is linked, and nothing changes for the
\* others.
LEMMA OwedClose ==
  ASSUME TypeOK, NEW r \in Remote, NEW s \in Remote, Close(s), Covered(r)
  PROVE  Covered(r)'
<1>0. box["far"] \in Seq(Messages) /\ box \in [Sides -> Seq(Messages)] /\ "far" \in Sides /\ "near" # "far"
  BY DEF TypeOK, Sides
<1>1. UNCHANGED wire /\ notify' = notify \ {s}
  BY DEF Close, Call
<1>2. CASE s \notin notify
  <2>1. UNCHANGED <<box, notify>>
    BY <1>1, <1>2 DEF Close
  <2> QED BY <1>1, <2>1 DEF Covered, NewsUnderWay, SubscribedTo, AskedOver
<1>3. CASE s \in notify
  <2>1. box' = [box EXCEPT !["far"] = Append(box["far"], Closed(s))]
    BY <1>3 DEF Close, Closed
  <2>2. box'["far"] = Append(box["far"], Closed(s)) /\ box'["near"] = box["near"]
    BY <1>0, <2>1
  <2>3. Closed(s) # TakeBack(r)
    BY FarMessagesDiffer
  <2>4. /\ Closed(r) \in ToSet(box["far"]) => Closed(r) \in ToSet(box'["far"])
        /\ Closed(s) \in ToSet(box'["far"])
    BY <1>0, <2>2, AppendKeeps
  <2>5. /\ TakeBack(r) \notin ToSet(box["far"]) => TakeBack(r) \notin ToSet(box'["far"])
        /\ Stands(box["far"], Ask(r), TakeBack(r)) => Stands(box'["far"], Ask(r), TakeBack(r))
    BY <1>0, <2>2, <2>3, AppendStands
  <2>6. NearNews(r) => NearNews(r)'
    BY <1>1, <2>2 DEF NearNews
  <2>7. AtFar(r) => AtFar(r)' \/ Closed(r) \in ToSet(box'["far"])
    <3>1. CASE r = s
      BY <2>4, <3>1
    <3>2. CASE r # s
      BY <1>1, <2>5, <3>2 DEF AtFar
    <3> QED BY <3>1, <3>2
  <2> QED BY <1>1, <2>4, <2>6, <2>7, KeptAtFar
<1> QED BY <1>2, <1>3

\* What is lost stays lost.
LEMMA SendKeepsLost ==
  ASSUME TypeOK, NEW side, NEW m, Send(side, m) \/ Vanish(side, m), lost
  PROVE  lost'
<1>1. CASE Transmit(side, m)
  BY <1>1 DEF Transmit
<1>2. CASE lost' = (lost \/ Matters(m))
  BY <1>2
<1> QED BY <1>1, <1>2 DEF Send, Vanish

\* Every step keeps what is owed.
LEMMA OwedStep ==
  ASSUME TypeOK, NewestIsWhole, NoticeOwed, [Next]_vars
  PROVE  NoticeOwed'
<1> SUFFICES ASSUME ~lost', ~overtaken', NEW r \in Remote, links'[r] # {} PROVE Covered(r)'
  BY DEF NoticeOwed
<1>0. /\ box["near"] \in Seq(Messages) /\ box \in [Sides -> Seq(Messages)]
      /\ wire \in [Conns -> [Sides -> Seq(Messages)]]
      /\ links \in [Remote -> SUBSET Local]
      /\ "near" \in Sides /\ "far" \in Sides /\ "near" # "far"
  BY DEF TypeOK, Sides
<1>1. ASSUME lost => lost', overtaken => overtaken' PROVE links[r] # {} => Covered(r)
  BY <1>1 DEF NoticeOwed
<1>2. ASSUME links[r] # {} => Covered(r), UNCHANGED <<links, notify>>, box'["far"] = box["far"],
             \A c \in Conns : wire'[c]["far"] = wire[c]["far"], NearNews(r) => NearNews(r)'
      PROVE  Covered(r)'
  <2>1. Covered(r) /\ (AtFar(r) => AtFar(r)')
    BY <1>2 DEF AtFar
  <2> QED BY <1>2, <2>1, KeptAtFar
<1>3. ASSUME UNCHANGED <<links, notify, box, wire, lost, overtaken>> PROVE Covered(r)'
  BY <1>1, <1>2, <1>3 DEF NearNews
<1>4. ASSUME NEW l \in Local, NEW s \in Remote, OnCloseNotify(l, s) \/ RemoveNotify(l, s)
      PROVE  Covered(r)'
  <2>1. UNCHANGED <<links, wire, lost, overtaken, notify>>
    BY <1>4 DEF OnCloseNotify, RemoveNotify, Call
  <2>2. PICK m : box' = [box EXCEPT !["near"] = Append(box["near"], m)]
    BY <1>4 DEF OnCloseNotify, RemoveNotify
  <2>3. box'["near"] = Append(box["near"], m) /\ box'["far"] = box["far"]
    BY <1>0, <2>2
  <2>4. RemoteClosed(r) \in ToSet(box["near"]) => RemoteClosed(r) \in ToSet(box'["near"])
    BY <1>0, <2>3, AppendKeeps
  <2>5. NearNews(r) => NearNews(r)'
    BY <2>1, <2>4 DEF NearNews
  <2> QED BY <1>1, <1>2, <2>1, <2>3, <2>5
<1>5. ASSUME NEW s \in Remote, Close(s) PROVE Covered(r)'
  BY <1>1, <1>5, OwedClose DEF Close, Call
<1>6. ASSUME NEW m, NEW type, Receive("near", m, type), type # "RemoteMailboxClosed" \/ m.remote # r,
             UNCHANGED <<notify, wire, lost, overtaken>>, links[r] # {}
      PROVE  Covered(r)'
  <2>1. box'["far"] = box["far"] /\ m.type = type
    BY <1>0, <1>6 DEF Receive
  <2>2. m # RemoteClosed(r)
    BY <1>6, <2>1 DEF RemoteClosed
  <2>3. NearNews(r) => NearNews(r)'
    BY <1>6, <2>2, NewsTaken
  <2>4. AtFar(r) => AtFar(r)'
    BY <1>6, <2>1 DEF AtFar
  <2> QED BY <1>1, <1>6, <2>1, <2>3, <2>4, KeptAtFar
<1>7. ASSUME NEW m, NEW type, Receive("near", m, type) PROVE m.remote \in Remote
  BY <1>0, <1>7, ReceiveTyped, BoxesAndWires
<1>8. ASSUME NEW m, NotifyMore(m) PROVE Covered(r)'
  <2>1. links[r] # {} /\ Receive("near", m, "NotifyRemote") /\ UNCHANGED <<notify, wire, lost, overtaken>>
    BY <1>0, <1>7, <1>8 DEF NotifyMore, history
  <2> QED BY <1>6, <2>1
<1>9. ASSUME NEW m, NotifyFirst(m) PROVE Covered(r)'
  <2>1. (lost => lost') /\ (overtaken => overtaken')
    BY <1>9, SendKeepsLost DEF NotifyFirst, Send
  <2> QED BY <1>1, <1>9, <2>1, OwedFirst
<1>10. ASSUME NEW m, NotifyFails(m) PROVE Covered(r)'
  BY <1>10 DEF NotifyFails
<1>11. ASSUME NEW m, UnnotifyMore(m) PROVE Covered(r)'
  <2>1. links[r] # {} /\ Receive("near", m, "UnnotifyRemote") /\ UNCHANGED <<notify, wire, lost, overtaken>>
    BY <1>0, <1>7, <1>11 DEF UnnotifyMore, history
  <2> QED BY <1>6, <2>1
<1>12. ASSUME NEW m, UnnotifyLast(m) PROVE Covered(r)'
  <2>1. (lost => lost') /\ (overtaken => overtaken')
    BY <1>12, SendKeepsLost DEF UnnotifyLast
  <2>2. links[r] # {}
    BY <1>0, <1>7, <1>12 DEF UnnotifyLast
  <2> QED BY <1>1, <1>12, <2>1, <2>2, OwedLast
<1>13. ASSUME NEW m, HandleRemoteMailboxClosed(m) PROVE Covered(r)'
  <2>1. /\ links[r] # {} /\ m.remote # r /\ Receive("near", m, "RemoteMailboxClosed")
        /\ UNCHANGED <<notify, wire, lost, overtaken>>
    BY <1>0, <1>7, <1>13 DEF HandleRemoteMailboxClosed
  <2> QED BY <1>6, <2>1
<1>14. ASSUME NEW m, Subscribe(m) \/ SubscribeLate(m) \/ Unsubscribe(m) \/ HandleMailboxClosed(m)
       PROVE  Covered(r)'
  <2>1. (lost => lost') /\ (overtaken => overtaken') /\ UNCHANGED links
    <3>1. CASE HandleMailboxClosed(m)
      BY <3>1, SendKeepsLost DEF HandleMailboxClosed
    <3>2. CASE Subscribe(m) \/ SubscribeLate(m) \/ Unsubscribe(m)
      BY <3>2 DEF Subscribe, SubscribeLate, Unsubscribe, history
    <3> QED BY <1>14, <3>1, <3>2
  <2> QED BY <1>1, <1>14, <2>1, OwedFar
<1>15. ASSUME NEW c \in Conns, Read("far", c) PROVE Covered(r)'
  <2>1. (lost => lost') /\ (overtaken => overtaken') /\ UNCHANGED links
    BY <1>15 DEF Read
  <2> QED BY <1>1, <1>15, <2>1, OwedRead
<1>16. ASSUME NEW c \in Conns, Read("near", c) PROVE Covered(r)'
  <2> DEFINE q == wire[c]["near"]
  <2>1. /\ (lost => lost') /\ (overtaken => overtaken') /\ UNCHANGED <<links, notify>>
        /\ box'["near"] = Append(box["near"], Head(q)) /\ box'["far"] = box["far"]
        /\ wire'[c]["near"] = Tail(q) /\ q # <<>> /\ q \in Seq(Messages)
        /\ \A d \in Conns \ {c} : wire'[d]["near"] = wire[d]["near"]
        /\ \A d \in Conns : wire'[d]["far"] = wire[d]["far"]
    BY <1>0, <1>16 DEF Read
  <2>2. /\ RemoteClosed(r) \in ToSet(box["near"]) => RemoteClosed(r) \in ToSet(box'["near"])
        /\ Head(q) \in ToSet(box'["near"])
    <3> DEFINE head == Head(q)
    <3>1. box'["near"] = Append(box["near"], head)
      BY <2>1
    <3> HIDE DEF head
    <3>2. /\ RemoteClosed(r) \in ToSet(box["near"]) => RemoteClosed(r) \in ToSet(box'["near"])
          /\ head \in ToSet(box'["near"])
      BY <1>0, <3>1, AppendKeeps
    <3> QED BY <3>2 DEF head
  <2>3. RemoteClosed(r) \in ToSet(q) => RemoteClosed(r) \in ToSet(Tail(q)) \/ RemoteClosed(r) = Head(q)
    <3> HIDE DEF q
    <3> QED BY <2>1, TailKeeps
  <2>4. NearNews(r) => NearNews(r)'
    BY <2>1, <2>2, <2>3 DEF NearNews
  <2> QED BY <1>1, <1>2, <2>1, <2>4
<1>17. ASSUME NEW side \in Sides, NEW c \in Conns, HandlerEnds(side, c) PROVE Covered(r)'
  <2>1. (lost => lost') /\ (overtaken => overtaken') /\ UNCHANGED links
    BY <1>17 DEF HandlerEnds
  <2> QED BY <1>1, <1>17, <2>1, OwedEnds
<1>18. ASSUME Dial \/ (\E c \in Conns : Break(c)) \/ (\E side \in Sides, c \in Conns : SetConnection(side, c))
       PROVE  Covered(r)'
  BY <1>3, <1>18 DEF Dial, Break, SetConnection, history
<1>19. CASE UNCHANGED vars
  BY <1>3, <1>19 DEF vars, history
<1>20. CASE Calls
  BY <1>4, <1>5, <1>20 DEF Calls
<1>21. CASE ServeNear
  BY <1>8, <1>9, <1>10, <1>11, <1>12, <1>13, <1>21 DEF ServeNear
<1>22. CASE ServeFar
  BY <1>14, <1>22 DEF ServeFar
<1>23. CASE Connections
  BY <1>15, <1>16, <1>17, <1>18, <1>23 DEF Connections, Sides
<1> QED BY <1>19, <1>20, <1>21, <1>22, <1>23 DEF Next

-----------------------------------------------------------------------------
(* News is true *)

\* A queue without x gets it by nothing but x.
LEMMA StaysWithout ==
  ASSUME NEW S, NEW q \in Seq(S), NEW x, x \notin ToSet(q)
  PROVE  /\ \A m : m # x => x \notin ToSet(Append(q, m))
         /\ q # <<>> => Head(q) # x /\ x \notin ToSet(Tail(q)) /\ Tail(q) \in Seq(S)
<1>1. \A m : m # x => x \notin ToSet(Append(q, m))
  BY AppendKeeps
<1>2. q # <<>> => Head(q) # x /\ x \notin ToSet(Tail(q)) /\ Tail(q) \in Seq(S)
  BY TailKeeps
<1> QED BY <1>1, <1>2

\* What is sent is all that is new on the wires.
LEMMA SendAddsOnly ==
  ASSUME TypeOK, NEW side \in Sides, NEW m, Send(side, m) \/ Vanish(side, m), NEW x, x # m,
         NEW c \in Conns, NEW s \in Sides, x \notin ToSet(wire[c][s])
  PROVE  x \notin ToSet(wire'[c][s])
<1>1. wire[c][s] \in Seq(Messages) /\ wire \in [Conns -> [Sides -> Seq(Messages)]]
  BY DEF TypeOK
<1>2. wire'[c][s] = wire[c][s] \/ wire'[c][s] = Append(wire[c][s], m)
  <2>1. CASE Transmit(side, m)
    <3> DEFINE d == connection[side]
               o == Other(side)
    <3>1. wire' = [wire EXCEPT ![d][o] = Append(@, m)]
      BY <2>1 DEF Transmit
    <3> HIDE DEF d, o
    <3> QED BY <1>1, <3>1
  <2>2. CASE UNCHANGED wire
    BY <2>2
  <2> QED BY <2>1, <2>2 DEF Send, Vanish
<1> QED BY <1>1, <1>2, StaysWithout

\* No news of r anywhere.
Silent(r) == Closed(r) \notin ToSet(box["far"]) /\ ~NearNews(r)

\* Silence about an open mailbox lasts while Serve of the near side works: it takes
\* from its queue and sends requests and removals.
LEMMA SilentNear ==
  ASSUME TypeOK, NEW r \in Remote, Silent(r), ServeNear
  PROVE  Silent(r)'
<1>0. /\ box \in [Sides -> Seq(Messages)] /\ "near" \in Sides /\ "far" \in Sides /\ "near" # "far"
      /\ box["near"] \in Seq(Messages)
  BY DEF TypeOK, Sides
<1>1. box'["far"] = box["far"] /\ box["near"] # <<>> /\ box'["near"] = Tail(box["near"])
  BY <1>0 DEF ServeNear, NotifyMore, NotifyFirst, NotifyFails, UnnotifyMore, UnnotifyLast,
              HandleRemoteMailboxClosed, Receive
<1>2. RemoteClosed(r) \notin ToSet(box'["near"])
  BY <1>0, <1>1, StaysWithout DEF Silent, NearNews
<1>3. \A s : Ask(s) # RemoteClosed(r) /\ TakeBack(s) # RemoteClosed(r)
  BY DEF Ask, TakeBack, RemoteClosed
<1>4. \/ UNCHANGED wire
      \/ \E s : Send("near", Ask(s)) \/ Vanish("near", Ask(s)) \/ Send("near", TakeBack(s))
  BY DEF ServeNear, NotifyMore, NotifyFirst, NotifyFails, UnnotifyMore, UnnotifyLast,
         HandleRemoteMailboxClosed, Send
<1>5. \A c \in Conns : RemoteClosed(r) \notin ToSet(wire'[c]["near"])
  <2> TAKE c \in Conns
  <2>1. RemoteClosed(r) \notin ToSet(wire[c]["near"])
    BY DEF Silent, NearNews
  <2> QED BY <1>0, <1>3, <1>4, <2>1, SendAddsOnly
<1> QED BY <1>1, <1>2, <1>5 DEF Silent, NearNews

\* ... while Serve of the far side works: what it answers and passes on is of mailboxes
\* that are closed, or was news before.
LEMMA SilentFar ==
  ASSUME TypeOK, NEW r \in Remote, r \notin closed, Silent(r), ServeFar
  PROVE  Silent(r)'
<1>0. /\ box \in [Sides -> Seq(Messages)] /\ "near" \in Sides /\ "far" \in Sides /\ "near" # "far"
      /\ box["far"] \in Seq(Messages) /\ box["far"] \in Seq(InBox["far"])
  BY DEF TypeOK, Sides
<1>1. PICK m : Subscribe(m) \/ SubscribeLate(m) \/ Unsubscribe(m) \/ HandleMailboxClosed(m)
  BY DEF ServeFar
<1>2. /\ box'["near"] = box["near"] /\ box["far"] # <<>> /\ m = Head(box["far"])
      /\ \/ box'["far"] = Tail(box["far"])
         \/ m.remote \in closed /\ box'["far"] = Append(Tail(box["far"]), Closed(m.remote))
  <2>1. CASE SubscribeLate(m)
    BY <1>0, <2>1 DEF SubscribeLate, Closed
  <2>2. CASE Subscribe(m) \/ Unsubscribe(m) \/ HandleMailboxClosed(m)
    BY <1>0, <2>2 DEF Subscribe, Unsubscribe, HandleMailboxClosed, Receive
  <2> QED BY <1>1, <2>1, <2>2
<1>3. /\ Tail(box["far"]) \in Seq(Messages) /\ Closed(r) \notin ToSet(Tail(box["far"]))
      /\ m # Closed(r) /\ m \in InBox["far"]
  BY <1>0, <1>2, StaysWithout, TailKeeps DEF Silent
<1>4. Closed(r) \notin ToSet(box'["far"])
  <2>1. m.remote \in closed => Closed(m.remote) # Closed(r)
    BY FarMessagesDiffer
  <2> QED BY <1>2, <1>3, <2>1, StaysWithout
<1>5. \A c \in Conns : RemoteClosed(r) \notin ToSet(wire'[c]["near"])
  <2> TAKE c \in Conns
  <2>1. RemoteClosed(r) \notin ToSet(wire[c]["near"])
    BY DEF Silent, NearNews
  <2>2. CASE HandleMailboxClosed(m)
    <3>1. m = Closed(m.remote) /\ Send("far", RemoteClosed(m.remote))
      BY <1>3, <2>2, FarMessageIs DEF HandleMailboxClosed, Receive, RemoteClosed
    <3>2. RemoteClosed(m.remote) # RemoteClosed(r)
      BY <1>3, <3>1, FarMessagesDiffer
    <3> QED BY <1>0, <2>1, <3>1, <3>2, SendAddsOnly
  <2>3. CASE Subscribe(m) \/ SubscribeLate(m) \/ Unsubscribe(m)
    <3>1. UNCHANGED wire
      BY <2>3 DEF Subscribe, SubscribeLate, Unsubscribe
    <3> QED BY <2>1, <3>1
  <2> QED BY <1>1, <2>2, <2>3
<1> QED BY <1>2, <1>4, <1>5 DEF Silent, NearNews

\* ... while mailboxes call: only a close is news.
LEMMA SilentCalls ==
  ASSUME TypeOK, NEW r \in Remote, r \notin closed', Silent(r), Calls
  PROVE  Silent(r)'
<1>0. /\ box \in [Sides -> Seq(Messages)] /\ "near" \in Sides /\ "far" \in Sides /\ "near" # "far"
      /\ box["near"] \in Seq(Messages) /\ box["far"] \in Seq(Messages)
  BY DEF TypeOK, Sides
<1>1. UNCHANGED wire
  BY DEF Calls, OnCloseNotify, RemoveNotify, Close, Call
<1>2. ASSUME NEW l \in Local, NEW s \in Remote, OnCloseNotify(l, s) \/ RemoveNotify(l, s)
      PROVE  Silent(r)'
  <2>1. Notify(l, s) # RemoteClosed(r) /\ Unnotify(l, s) # RemoteClosed(r)
    BY DEF Notify, Unnotify, RemoteClosed
  <2>2. /\ box'["far"] = box["far"]
        /\ \/ box'["near"] = Append(box["near"], Notify(l, s))
           \/ box'["near"] = Append(box["near"], Unnotify(l, s))
    BY <1>0, <1>2 DEF OnCloseNotify, RemoveNotify
  <2>3. RemoteClosed(r) \notin ToSet(box'["near"])
    BY <1>0, <2>1, <2>2, StaysWithout DEF Silent, NearNews
  <2> QED BY <1>1, <2>2, <2>3 DEF Silent, NearNews
<1>3. ASSUME NEW s \in Remote, Close(s) PROVE Silent(r)'
  <2>1. s # r /\ Closed(s) # Closed(r)
    BY <1>3, FarMessagesDiffer DEF Close
  <2>2. /\ box'["near"] = box["near"]
        /\ box'["far"] = box["far"] \/ box'["far"] = Append(box["far"], Closed(s))
    BY <1>0, <1>3 DEF Close, Closed
  <2>3. Closed(r) \notin ToSet(box'["far"])
    BY <1>0, <2>1, <2>2, StaysWithout DEF Silent
  <2> QED BY <1>1, <2>2, <2>3 DEF Silent, NearNews
<1> QED BY <1>2, <1>3 DEF Calls

\* ... while a handler reads: what it puts in the queue was on the wire, and news on
\* the wire to the far side there is none.
LEMMA SilentRead ==
  ASSUME TypeOK, NEW r \in Remote, Silent(r), NEW side \in Sides, NEW c \in Conns, Read(side, c)
  PROVE  Silent(r)'
<1> DEFINE q == wire[c][side]
           b == box[side]
<1>0. /\ box \in [Sides -> Seq(Messages)] /\ "near" \in Sides /\ "far" \in Sides /\ "near" # "far"
      /\ wire \in [Conns -> [Sides -> Seq(Messages)]] /\ b \in Seq(Messages)
      /\ q \in Seq(Messages) /\ q \in Seq(OnWire[side]) /\ q # <<>>
  BY DEF TypeOK, Sides, Read
<1>1. /\ \A s \in Sides : box'[s] = IF s = side THEN Append(b, Head(q)) ELSE box[s]
      /\ \A d \in Conns, s \in Sides : wire'[d][s] = IF d = c /\ s = side THEN Tail(q) ELSE wire[d][s]
  BY <1>0 DEF Read
<1>2. CASE side = "near"
  <2>1. RemoteClosed(r) \notin ToSet(q) /\ RemoteClosed(r) \notin ToSet(b)
    BY <1>2 DEF Silent, NearNews
  <2> HIDE DEF q, b
  <2>2. RemoteClosed(r) \notin ToSet(Tail(q)) /\ RemoteClosed(r) \notin ToSet(Append(b, Head(q)))
    BY <1>0, <2>1, StaysWithout
  <2>3. box'["far"] = box["far"] /\ box'["near"] = Append(b, Head(q))
    BY <1>0, <1>1, <1>2
  <2>4. \A d \in Conns : RemoteClosed(r) \notin ToSet(wire'[d]["near"])
    BY <1>0, <1>1, <1>2, <2>2 DEF Silent, NearNews
  <2> QED BY <2>2, <2>3, <2>4 DEF Silent, NearNews
<1>3. CASE side = "far"
  <2>1. Head(q) # Closed(r)
    <3>1. Head(q) \in OnWire["far"]
      BY <1>0, <1>3, TailKeeps
    <3> QED BY <3>1 DEF OnWire, ToFar, Closed
  <2>2. Closed(r) \notin ToSet(b)
    BY <1>3 DEF Silent
  <2> HIDE DEF q, b
  <2>3. Closed(r) \notin ToSet(Append(b, Head(q)))
    BY <1>0, <2>1, <2>2, StaysWithout
  <2>4. box'["near"] = box["near"] /\ box'["far"] = Append(b, Head(q))
    BY <1>0, <1>1, <1>3
  <2>5. \A d \in Conns : wire'[d]["near"] = wire[d]["near"]
    BY <1>0, <1>1, <1>3
  <2> QED BY <2>3, <2>4, <2>5 DEF Silent, NearNews
<1> QED BY <1>2, <1>3 DEF Sides

\* ... and when connections come and go.
LEMMA SilentConnections ==
  ASSUME TypeOK, NEW r \in Remote, Silent(r), Connections
  PROVE  Silent(r)'
<1>1. CASE Dial \/ \E c \in Conns : Break(c) \/ \E side \in Sides : SetConnection(side, c)
  <2>1. UNCHANGED <<box, wire>>
    BY <1>1 DEF Dial, Break, SetConnection
  <2> QED BY <2>1 DEF Silent, NearNews
<1>2. ASSUME NEW side \in Sides, NEW c \in Conns, HandlerEnds(side, c) PROVE Silent(r)'
  <2>1. ToSet(<<>>) = {}
    BY DEF ToSet
  <2>2. "near" \in Sides /\ UNCHANGED box
        /\ \A d \in Conns, s \in Sides : wire'[d][s] = <<>> \/ wire'[d][s] = wire[d][s]
    BY <1>2 DEF HandlerEnds, TypeOK, Sides
  <2> QED BY <2>1, <2>2 DEF Silent, NearNews
<1> QED BY <1>1, <1>2, SilentRead DEF Connections

\* Every step keeps the news true.
LEMMA NewsStep ==
  ASSUME TypeOK, NewsIsTrue, [Next]_vars
  PROVE  NewsIsTrue'
<1>1. \A r : NewsUnderWay(r) <=> ~Silent(r)
  BY CoveredParts DEF Silent
<1>2. \A r : NewsUnderWay(r)' <=> ~Silent(r)'
  BY <1>1 DEF NewsUnderWay, Silent, NearNews, Closed, RemoteClosed
<1>3. closed \subseteq closed'
  <2>1. CASE Calls
    BY <2>1 DEF Calls, OnCloseNotify, RemoveNotify, Close
  <2>2. CASE ServeNear \/ ServeFar
    BY <2>2 DEF ServeNear, NotifyMore, NotifyFirst, NotifyFails, UnnotifyMore, UnnotifyLast,
                HandleRemoteMailboxClosed, ServeFar, Subscribe, SubscribeLate, Unsubscribe,
                HandleMailboxClosed
  <2>3. CASE Connections
    BY <2>3 DEF Connections, Dial, Break, SetConnection, Read, HandlerEnds
  <2>4. CASE UNCHANGED vars
    BY <2>4 DEF vars
  <2> QED BY <2>1, <2>2, <2>3, <2>4 DEF Next
<1>4. ASSUME NEW r \in Remote, r \notin closed' PROVE Silent(r)'
  <2>1. r \notin closed /\ Silent(r)
    BY <1>1, <1>3, <1>4 DEF NewsIsTrue
  <2>2. CASE UNCHANGED vars
    BY <2>1, <2>2 DEF vars, Silent, NearNews
  <2> QED BY <1>4, <2>1, <2>2, SilentCalls, SilentNear, SilentFar, SilentConnections DEF Next
<1> QED BY <1>2, <1>4 DEF NewsIsTrue

\* At the start nobody is linked and there is no connection.
LEMMA LinkInit == Init => LinkInv
<1> SUFFICES ASSUME Init PROVE LinkInv
  OBVIOUS
<1> USE RemoteLinksAssumption
<1>1. BoxOK /\ WireOK
  <2>1. /\ \A side \in Sides : box[side] = <<>>
        /\ \A c \in Conns, side \in Sides : wire[c][side] = <<>>
    BY DEF Init
  <2>2. box \in [Sides -> Seq(Messages)] /\ wire \in [Conns -> [Sides -> Seq(Messages)]]
    BY DEF Init
  <2> QED BY <2>1, <2>2 DEF BoxOK, WireOK
<1>4. RestOK
  <2>1. dialer \in Sides /\ 0 \in 0..MaxConns /\ 0 \in 0..MaxCalls
    BY DEF Init
  <2> QED BY <2>1 DEF Init, RestOK
<1>2. NewestIsWhole
  BY DEF Init, NewestIsWhole, Sides, Conns, None
<1>3. NoticeOwed /\ AskedIsLinked /\ OvertakenWhereFarListens
  BY DEF Init, NoticeOwed, AskedIsLinked, OvertakenWhereFarListens
<1>5. NewsIsTrue
  <2>1. \A side \in Sides : ToSet(box[side]) = {} /\ \A c \in Conns : ToSet(wire[c][side]) = {}
    BY DEF Init, ToSet
  <2>2. "near" \in Sides /\ "far" \in Sides
    BY DEF Sides
  <2>3. ASSUME NEW r \in Remote PROVE ~NewsUnderWay(r)
    <3>1. Closed(r) \notin ToSet(box["far"]) /\ RemoteClosed(r) \notin ToSet(box["near"])
      BY <2>1, <2>2
    <3>2. \A c \in Conns : RemoteClosed(r) \notin ToSet(wire[c]["near"])
      BY <2>1, <2>2
    <3> QED BY <3>1, <3>2, CoveredParts DEF NearNews
  <2> QED BY <2>3 DEF NewsIsTrue
<1> QED BY <1>1, <1>2, <1>3, <1>4, <1>5, TypeParts DEF LinkInv

\* Links to mailboxes of another node, however often the connection between them breaks
\* and whichever side makes it again: whoever asked for a notice is linked, and whoever
\* is linked is owed the notice by the other node, unless a message was lost or a request
\* overtook an older removal, which needs the other node to listen.
THEOREM LinksAreKept == Spec => []LinkInv
<1>1. ASSUME LinkInv, [Next]_vars PROVE LinkInv'
  <2>1. TypeOK'
    BY <1>1, TypeStep DEF LinkInv
  <2> QED BY <1>1, <2>1, NewestStep, NewsStep, OvertakenStep, AskedStep, OwedStep DEF LinkInv
<1> QED BY <1>1, LinkInit, PTL DEF Spec

\* A notice is given for a mailbox of the other node only when that is closed, or when
\* Serve cannot send a request and gives up the node (remoteMailboxes.go:158-180,
\* 258-267, 294-311): whatever is delayed, dropped or read from an old connection, over any
\* number of connections.
THEOREM NoFalseNotices == Spec => NoticesAreTrue
<1>1. ASSUME LinkInv, [Next]_vars
      PROVE  \A p \in told' \ told : p[2] \in closed \/ \E m \in ToSet(box.near) : NotifyFails(m)
  <2> SUFFICES ASSUME NEW p \in told' \ told, \A m \in ToSet(box.near) : ~NotifyFails(m)
               PROVE  p[2] \in closed
    OBVIOUS
  <2>1. CASE Calls
    BY <2>1 DEF Calls, OnCloseNotify, RemoveNotify, Close
  <2>2. CASE ServeNear
    <3>1. PICK m \in ToSet(box.near) : HandleRemoteMailboxClosed(m)
      BY <2>2 DEF ServeNear, NotifyMore, NotifyFirst, UnnotifyMore, UnnotifyLast, history
    <3>2. p \in links[m.remote] \X {m.remote} /\ Receive("near", m, "RemoteMailboxClosed")
      BY <3>1 DEF HandleRemoteMailboxClosed, Tell
    <3>3. "near" \in Sides /\ TypeOK
      BY <1>1 DEF Sides, LinkInv
    <3>4. m \in InBox["near"] /\ m.type = "RemoteMailboxClosed"
      BY <3>2, <3>3, ReceiveTyped
    <3>5. m.remote \in Remote /\ m = RemoteClosed(m.remote)
      BY <3>4, BoxesAndWires, FarMessageIs
    <3>6. NewsUnderWay(m.remote)
      BY <3>1, <3>5 DEF NewsUnderWay, RemoteClosed
    <3> QED BY <1>1, <3>2, <3>5, <3>6 DEF LinkInv, NewsIsTrue
  <2>3. CASE ServeFar
    BY <2>3 DEF ServeFar, Subscribe, SubscribeLate, Unsubscribe, HandleMailboxClosed, history
  <2>4. CASE Connections
    BY <2>4 DEF Connections, Dial, Break, SetConnection, Read, HandlerEnds, history
  <2>5. CASE UNCHANGED vars
    BY <2>5 DEF vars, history
  <2> QED BY <1>1, <2>1, <2>2, <2>3, <2>4, <2>5 DEF Next
<1> QED BY <1>1, LinksAreKept, PTL DEF Spec, NoticesAreTrue
=============================================================================

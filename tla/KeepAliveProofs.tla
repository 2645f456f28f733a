--------------------------- MODULE KeepAliveProofs ---------------------------
(***************************************************************************)
(* While the network delivers, no deadline passes, whatever the intervals  *)
(* are.  The argument: a side that has heard nothing for a while has its   *)
(* ping still to come, under way, or answered, and each of these takes     *)
(* only so long.  When it delivers no more, no deadline is moved, and each *)
(* interval after it uses up one of the pings that may fail.               *)
(***************************************************************************)
EXTENDS KeepAlive, TLAPS

Messages == [kind : Kinds, age : 0..Delay]

\* Something to read is on its way to the side.
Answered(side) == \E i \in DOMAIN wire[side] :
  quiet[side] <= PingInterval + Delay + wire[side][i].age

\* A ping of the side is on its way to the other.
Asked(side) == \E i \in DOMAIN wire[Other(side)] :
  /\ wire[Other(side)][i].kind = "Ping"
  /\ quiet[side] <= PingInterval + wire[Other(side)][i].age

HeardInTime(side) ==
  (~cut /\ Up(side) /\ Up(Other(side))) =>
    \/ quiet[side] + timer[side] <= PingInterval
    \/ Answered(side)
    \/ Asked(side)

AliveInv == TypeOK /\ \A side \in Sides : HeardInTime(side)

\* The other side of the other side is the side itself.
LEMMA SidesOther ==
  ASSUME NEW side \in Sides
  PROVE  Other(side) \in Sides /\ Other(side) # side /\ Other(Other(side)) = side
BY DEF Sides, Other

\* None of the three lasts longer than StaysAlive allows.
LEMMA HeardIsAlive ==
  ASSUME AliveInv
  PROVE  /\ StaysAlive
         /\ \A side \in Sides : (~cut /\ Up(side) /\ Up(Other(side))) => ~Expired(side)
<1>1. ASSUME NEW side \in Sides, ~cut, Up(side), Up(Other(side))
      PROVE  quiet[side] <= PingInterval + 2 * Delay
  <2>0. /\ quiet[side] \in Nat /\ timer[side] \in Nat /\ Other(side) \in Sides
        /\ \A s \in Sides : \A i \in DOMAIN wire[s] : wire[s][i] \in Messages
    <3>1. \A s \in Sides : wire[s] \in Seq(Messages)
      BY DEF AliveInv, TypeOK, Messages
    <3> QED BY <3>1, SidesOther, KeepAliveAssumption DEF AliveInv, TypeOK
  <2>1. CASE quiet[side] + timer[side] <= PingInterval
    BY <2>0, <2>1, KeepAliveAssumption
  <2>2. CASE Answered(side)
    <3>1. PICK i \in DOMAIN wire[side] : quiet[side] <= PingInterval + Delay + wire[side][i].age
      BY <2>2 DEF Answered
    <3>2. wire[side][i].age \in 0..Delay
      BY <2>0 DEF Messages
    <3> QED BY <2>0, <3>1, <3>2, KeepAliveAssumption
  <2>3. CASE Asked(side)
    <3>1. PICK i \in DOMAIN wire[Other(side)] :
            quiet[side] <= PingInterval + wire[Other(side)][i].age
      BY <2>3 DEF Asked
    <3>2. wire[Other(side)][i].age \in 0..Delay
      BY <2>0 DEF Messages
    <3> QED BY <2>0, <3>1, <3>2, KeepAliveAssumption
  <2> QED BY <1>1, <2>1, <2>2, <2>3 DEF AliveInv, HeardInTime
<1>2. ASSUME NEW side \in Sides, ~cut, Up(side), Up(Other(side)) PROVE ~Expired(side)
  BY <1>1, <1>2, KeepAliveAssumption DEF AliveInv, TypeOK, Expired
<1> QED BY <1>1, <1>2 DEF StaysAlive

-----------------------------------------------------------------------------
(* The wire *)

\* What is sent comes last, and is there if the other side is.
LEMMA WireAdd ==
  ASSUME NEW q \in Seq(Messages), NEW to, NEW kind \in Kinds
  PROVE  /\ q \o OnWire(to, kind) \in Seq(Messages)
         /\ \A i \in DOMAIN q : /\ i \in DOMAIN (q \o OnWire(to, kind))
                                /\ (q \o OnWire(to, kind))[i] = q[i]
         /\ ~cut /\ Up(to) => \E i \in DOMAIN (q \o OnWire(to, kind)) :
              (q \o OnWire(to, kind))[i] = [kind |-> kind, age |-> 0]
<1> DEFINE m == [kind |-> kind, age |-> 0]
<1>1. m \in Messages
  BY KeepAliveAssumption DEF Messages
<1>2. CASE cut \/ ~Up(to)
  <2>1. OnWire(to, kind) = <<>>
    BY <1>2 DEF OnWire
  <2>2. q \o <<>> = q
    OBVIOUS
  <2> QED BY <1>2, <2>1, <2>2
<1>3. CASE ~cut /\ Up(to)
  <2>1. OnWire(to, kind) = <<m>>
    BY <1>3 DEF OnWire
  <2> HIDE DEF m
  <2>2. /\ q \o <<m>> \in Seq(Messages)
        /\ DOMAIN q = 1..Len(q) /\ Len(q) \in Nat
        /\ DOMAIN (q \o <<m>>) = 1..(Len(q) + 1)
        /\ \A i \in 1..Len(q) : (q \o <<m>>)[i] = q[i]
        /\ (q \o <<m>>)[Len(q) + 1] = m
    BY <1>1
  <2>3. /\ \A i \in DOMAIN q : i \in DOMAIN (q \o <<m>>) /\ (q \o <<m>>)[i] = q[i]
        /\ \E i \in DOMAIN (q \o <<m>>) : (q \o <<m>>)[i] = m
    BY <2>2
  <2> QED BY <2>1, <2>2, <2>3 DEF m
<1> QED BY <1>2, <1>3

\* A message that was just sent.
Fresh(m, kind) == m.kind = kind /\ m.age = 0

\* The same of the wire that results.
LEMMA WireAdded ==
  ASSUME NEW q \in Seq(Messages), NEW to, NEW kind \in Kinds, NEW r, r = q \o OnWire(to, kind)
  PROVE  /\ \A i \in DOMAIN q : i \in DOMAIN r /\ r[i] = q[i]
         /\ ~cut /\ Up(to) => \E i \in DOMAIN r : Fresh(r[i], kind)
<1>1. \A i \in DOMAIN q : i \in DOMAIN r /\ r[i] = q[i]
  BY WireAdd
<1>2. ASSUME ~cut, Up(to) PROVE \E i \in DOMAIN r : Fresh(r[i], kind)
  <2>1. PICK i \in DOMAIN r : r[i] = [kind |-> kind, age |-> 0]
    BY <1>2, WireAdd
  <2>2. r[i].kind = kind /\ r[i].age = 0
    BY <2>1
  <2>3. Fresh(r[i], kind)
    BY <2>2 DEF Fresh
  <2> QED BY <2>3
<1> QED BY <1>1, <1>2

\* What is not the head is still there when that is read.
LEMMA WireTake ==
  ASSUME NEW q \in Seq(Messages), q # <<>>
  PROVE  /\ Tail(q) \in Seq(Messages) /\ Head(q) \in Messages
         /\ \A i \in DOMAIN q : q[i] = Head(q) \/ \E j \in DOMAIN Tail(q) : Tail(q)[j] = q[i]
<1>1. /\ DOMAIN q = 1..Len(q) /\ Len(q) \in Nat \ {0}
      /\ Tail(q) \in Seq(Messages) /\ DOMAIN Tail(q) = 1..(Len(q) - 1)
      /\ Head(q) = q[1] /\ Head(q) \in Messages
      /\ \A i \in 1..(Len(q) - 1) : Tail(q)[i] = q[i + 1]
  OBVIOUS
<1>2. ASSUME NEW i \in DOMAIN q, i # 1 PROVE \E j \in DOMAIN Tail(q) : Tail(q)[j] = q[i]
  <2>1. i - 1 \in DOMAIN Tail(q) /\ Tail(q)[i - 1] = q[i]
    BY <1>1, <1>2
  <2> QED BY <2>1
<1> QED BY <1>1, <1>2

-----------------------------------------------------------------------------
(* Steps *)

\* A message after a unit of time.
Older(m) == IF m.age < Delay THEN [m EXCEPT !.age = @ + 1] ELSE m

\* A message that gets older remains a message of its kind.
LEMMA OlderTyped ==
  ASSUME NEW m \in Messages
  PROVE  /\ Older(m) \in Messages
         /\ m.age < Delay => Older(m).kind = m.kind /\ Older(m).age = m.age + 1
BY KeepAliveAssumption DEF Messages, Older

Shape(w) == w \in [Sides -> Seq(Messages)]

\* TypeOK with the wires apart.
LEMMA TypeParts ==
  TypeOK <=> /\ status \in [Sides -> {"up", "over", "dead"}]
             /\ timer \in [Sides -> 0..PingInterval] /\ quiet \in [Sides -> 0..Deadline]
             /\ failures \in [Sides -> 0..(MaxFailures - 1)]
             /\ Shape(wire) /\ cut \in BOOLEAN /\ silent \in Nat
BY DEF TypeOK, Shape, Messages

\* Only the clock adds to the silence.
LEMMA ClockOnly ==
  ASSUME [Next]_vars
  PROVE  Tick \/ UNCHANGED silent
BY DEF Next, Handler, pingRemote, ReadPing, ReadPingLate, ReadOther, ReadEnd, Read,
       Ping, PingTimesOut, PingPanics, Send, Close, Cut, vars

\* A side stays so when nothing that was on its way to it or from it is gone.
LEMMA HeardKept ==
  ASSUME TypeOK, NEW s \in Sides, HeardInTime(s),
         cut => cut', Up(s)' => Up(s), Up(Other(s))' => Up(Other(s)),
         quiet'[s] = quiet[s], timer'[s] = timer[s],
         \A i \in DOMAIN wire[s] : \E j \in DOMAIN wire'[s] : wire'[s][j] = wire[s][i],
         \A i \in DOMAIN wire[Other(s)] : \E j \in DOMAIN wire'[Other(s)] :
            wire'[Other(s)][j] = wire[Other(s)][i]
  PROVE  HeardInTime(s)'
<1>1. Answered(s) => Answered(s)'
  <2> SUFFICES ASSUME Answered(s) PROVE \E i \in DOMAIN wire'[s] :
                        quiet'[s] <= PingInterval + Delay + wire'[s][i].age
    BY DEF Answered
  <2> QED BY DEF Answered
<1>2. Asked(s) => Asked(s)'
  BY DEF Asked
<1> QED BY <1>1, <1>2 DEF HeardInTime

\* A side that has just read something has all the time until its next ping.
LEMMA JustHeard ==
  ASSUME NEW s \in Sides, TypeOK, quiet' = [quiet EXCEPT ![s] = 0], ResetTimer(s)
  PROVE  HeardInTime(s)'
BY KeepAliveAssumption DEF TypeOK, ResetTimer, HeardInTime

\* Every step keeps the types.
LEMMA TypeStep ==
  ASSUME TypeOK, [Next]_vars
  PROVE  TypeOK'
<1>0. /\ status \in [Sides -> {"up", "over", "dead"}]
      /\ timer \in [Sides -> 0..PingInterval] /\ quiet \in [Sides -> 0..Deadline]
      /\ failures \in [Sides -> 0..(MaxFailures - 1)]
      /\ Shape(wire) /\ cut \in BOOLEAN /\ silent \in Nat
      /\ 0 \in 0..Deadline /\ PingInterval \in 0..PingInterval /\ 0 \in 0..(MaxFailures - 1)
  BY TypeParts, KeepAliveAssumption
<1>1. ASSUME status' \in [Sides -> {"up", "over", "dead"}],
             timer' \in [Sides -> 0..PingInterval], quiet' \in [Sides -> 0..Deadline],
             failures' \in [Sides -> 0..(MaxFailures - 1)], Shape(wire'), cut' \in BOOLEAN
      PROVE  TypeOK'
  <2>1. silent' \in Nat
    <3>1. CASE Tick
      BY <1>0, <3>1 DEF Tick
    <3>2. CASE UNCHANGED silent
      BY <1>0, <3>2
    <3> QED BY <3>1, <3>2, ClockOnly
  <2> QED BY <1>1, <2>1 DEF TypeOK, Shape, Messages
<1>2. ASSUME NEW side \in Sides, NEW kind, Read(side, kind)
      PROVE  /\ timer' \in [Sides -> 0..PingInterval] /\ quiet' \in [Sides -> 0..Deadline]
             /\ UNCHANGED <<failures, cut>>
             /\ wire[side] \in Seq(Messages) /\ wire[side] # <<>>
             /\ Tail(wire[side]) \in Seq(Messages)
  BY <1>0, <1>2, WireTake DEF Read, ResetTimer, Shape
<1>3. ASSUME NEW side \in Sides, NEW kind \in Kinds, NEW w,
             w \in [Sides -> Seq(Messages)],
             wire' = [w EXCEPT ![side] = @ \o OnWire(side, kind)]
      PROVE  Shape(wire')
  <2>1. w[side] \in Seq(Messages)
    BY <1>3
  <2>2. w[side] \o OnWire(side, kind) \in Seq(Messages)
    BY <2>1, WireAdd
  <2> QED BY <1>3, <2>2 DEF Shape
<1>4. ASSUME NEW side \in Sides, ReadPing(side) PROVE TypeOK'
  <2> DEFINE w == [wire EXCEPT ![side] = Tail(wire[side])]
  <2>1. Tail(wire[side]) \in Seq(Messages) /\ Other(side) \in Sides /\ Other(side) # side
    BY <1>2, <1>4, SidesOther DEF ReadPing
  <2>2. w \in [Sides -> Seq(Messages)]
    BY <1>0, <2>1 DEF Shape
  <2>3. wire' = [w EXCEPT ![Other(side)] = @ \o OnWire(Other(side), "Pong")]
    BY <1>0, <1>4, <2>1 DEF ReadPing, Shape
  <2>4. Shape(wire')
    <3> HIDE DEF w
    <3> QED BY <1>3, <2>1, <2>2, <2>3 DEF Kinds
  <2> QED BY <1>0, <1>1, <1>2, <1>4, <2>4 DEF ReadPing
<1>5. ASSUME NEW side \in Sides, ReadPingLate(side) \/ ReadOther(side) PROVE TypeOK'
  <2>1. PICK kind : Read(side, kind) /\ wire' = [wire EXCEPT ![side] = Tail(@)]
    BY <1>5 DEF ReadPingLate, ReadOther
  <2>2. Shape(wire') /\ status' \in [Sides -> {"up", "over", "dead"}]
    BY <1>0, <1>2, <1>5, <2>1 DEF Shape, ReadPingLate, ReadOther, Finish
  <2> QED BY <1>0, <1>1, <1>2, <2>1, <2>2
<1>6. ASSUME NEW side \in Sides, ReadEnd(side) \/ PingPanics(side) \/ Close(side) PROVE TypeOK'
  <2>1. /\ status' \in [Sides -> {"up", "over", "dead"}]
        /\ UNCHANGED <<timer, quiet, failures, wire, cut>>
    BY <1>0, <1>6 DEF ReadEnd, PingPanics, Close, Finish
  <2> QED BY <1>0, <1>1, <2>1
<1>7. ASSUME NEW side \in Sides, NEW kind \in Kinds,
             wire' = [wire EXCEPT ![Other(side)] = @ \o OnWire(Other(side), kind)]
      PROVE  Shape(wire')
  BY <1>0, <1>3, <1>7, SidesOther DEF Shape
<1>8. ASSUME NEW side \in Sides, Ping(side) PROVE TypeOK'
  <2>1. Shape(wire')
    BY <1>7, <1>8 DEF Ping, Kinds
  <2> QED BY <1>0, <1>1, <1>8, <2>1 DEF Ping, ResetTimer
<1>9. ASSUME NEW side \in Sides, PingTimesOut(side) PROVE TypeOK'
  <2>1. failures' \in [Sides -> 0..(MaxFailures - 1)]
    BY <1>0, <1>9, KeepAliveAssumption DEF PingTimesOut
  <2> QED BY <1>0, <1>1, <1>9, <2>1 DEF PingTimesOut, ResetTimer
<1>10. ASSUME NEW side \in Sides, Send(side) PROVE TypeOK'
  <2>1. Shape(wire')
    BY <1>7, <1>10 DEF Send, Kinds
  <2> QED BY <1>0, <1>1, <1>10, <2>1 DEF Send
<1>11. CASE Cut
  <2>1. Shape(wire')
    BY <1>11 DEF Cut, Shape
  <2> QED BY <1>0, <1>1, <1>11, <2>1 DEF Cut
<1>12. CASE Tick
  <2>1. Shape(wire')
    <3> SUFFICES ASSUME NEW side \in Sides PROVE wire'[side] \in Seq(Messages)
      BY <1>12 DEF Tick, Shape
    <3> DEFINE q == wire[side]
    <3>1. q \in Seq(Messages)
      BY <1>0 DEF Shape
    <3>2. Len(q) \in Nat /\ DOMAIN q = 1..Len(q) /\ \A i \in DOMAIN q : q[i] \in Messages
      BY <3>1
    <3>3. \A i \in DOMAIN q : Older(q[i]) \in Messages
      BY <3>2, OlderTyped
    <3>4. wire'[side] = [i \in DOMAIN q |-> Older(q[i])]
      BY <1>12 DEF Tick, Older
    <3> HIDE DEF q
    <3> QED BY <3>2, <3>3, <3>4
  <2>a. /\ \A side \in Sides : Up(side) => timer[side] > 0
        /\ timer' = [side \in Sides |-> IF Up(side) THEN timer[side] - 1 ELSE timer[side]]
        /\ quiet' = [side \in Sides |-> IF Up(side) /\ ~Expired(side) THEN quiet[side] + 1 ELSE quiet[side]]
    BY <1>12 DEF Tick
  <2>b. PingInterval \in Nat /\ Deadline \in Nat
    BY KeepAliveAssumption
  <2>2. timer' \in [Sides -> 0..PingInterval]
    <3> SUFFICES ASSUME NEW side \in Sides PROVE timer'[side] \in 0..PingInterval
      BY <2>a
    <3>1. timer[side] \in 0..PingInterval
      BY <1>0
    <3> QED BY <2>a, <2>b, <3>1
  <2>3. quiet' \in [Sides -> 0..Deadline]
    <3> SUFFICES ASSUME NEW side \in Sides PROVE quiet'[side] \in 0..Deadline
      BY <2>a
    <3>1. quiet[side] \in 0..Deadline
      BY <1>0
    <3> QED BY <2>a, <2>b, <3>1 DEF Expired
  <2> QED BY <1>0, <1>1, <1>12, <2>1, <2>2, <2>3 DEF Tick
<1>13. CASE UNCHANGED vars
  BY <1>0, <1>1, <1>13 DEF vars
<1> QED BY <1>4, <1>5, <1>6, <1>8, <1>9, <1>10, <1>11, <1>12, <1>13 DEF Next, Handler, pingRemote

\* What was cut or is over stays so.
LEMMA NothingComesBack ==
  ASSUME TypeOK, [Next]_vars
  PROVE  /\ cut => cut'
         /\ \A side \in Sides : Up(side)' => Up(side)
<1>1. CASE UNCHANGED vars
  BY <1>1 DEF vars, Up
<1>2. CASE Cut \/ Tick
  BY <1>2 DEF Cut, Tick, Up
<1>3. ASSUME NEW side \in Sides,
             ReadPing(side) \/ ReadPingLate(side) \/ ReadOther(side) \/ ReadEnd(side)
      PROVE  UNCHANGED cut /\ \A s \in Sides : Up(s)' => Up(s)
  BY <1>3 DEF ReadPing, ReadPingLate, ReadOther, ReadEnd, Read, Up, Finish, TypeOK
<1>4. ASSUME NEW side \in Sides,
             Ping(side) \/ PingTimesOut(side) \/ PingPanics(side) \/ Send(side) \/ Close(side)
      PROVE  UNCHANGED cut /\ \A s \in Sides : Up(s)' => Up(s)
  BY <1>4 DEF Ping, PingTimesOut, PingPanics, Send, Close, Up, Finish, TypeOK
<1> QED BY <1>1, <1>2, <1>3, <1>4 DEF Next, Handler, pingRemote

\* Every step leaves each side with its ping to come, under way, or answered.
LEMMA AliveStep ==
  ASSUME AliveInv, [Next]_vars
  PROVE  AliveInv'
<1>1. TypeOK /\ TypeOK'
  BY TypeStep DEF AliveInv
<1> SUFFICES ASSUME NEW s \in Sides, ~cut', Up(s)', Up(Other(s))' PROVE HeardInTime(s)'
  BY <1>1 DEF AliveInv, HeardInTime
<1> DEFINE o == Other(s)
<1>2. ~cut /\ Up(s) /\ Up(o) /\ ~Expired(s) /\ ~Expired(o) /\ HeardInTime(s)
  BY <1>1, NothingComesBack, HeardIsAlive, SidesOther DEF AliveInv
<1>3. /\ o \in Sides /\ o # s /\ Other(o) = s /\ \A side \in Sides : side = s \/ side = o
      /\ wire[s] \in Seq(Messages) /\ wire[o] \in Seq(Messages)
      /\ quiet[s] \in Nat /\ timer[s] \in 0..PingInterval /\ PingInterval \in Nat /\ Delay \in Nat
      /\ \A i \in DOMAIN wire[s] : wire[s][i] \in Messages
      /\ \A i \in DOMAIN wire[o] : wire[o][i] \in Messages
  <2>1. wire[s] \in Seq(Messages) /\ wire[o] \in Seq(Messages)
    BY <1>1, TypeParts, SidesOther DEF Shape
  <2>2. quiet[s] \in Nat /\ timer[s] \in 0..PingInterval
    BY <1>1, KeepAliveAssumption DEF TypeOK
  <2>3. \A side \in Sides : side = s \/ side = o
    BY DEF Sides, Other
  <2>4. /\ \A i \in DOMAIN wire[s] : wire[s][i] \in Messages
        /\ \A i \in DOMAIN wire[o] : wire[o][i] \in Messages
    BY <2>1
  <2> QED BY <2>1, <2>2, <2>3, <2>4, SidesOther, KeepAliveAssumption
<1> HIDE DEF o
<1>4. ASSUME UNCHANGED <<quiet, timer>>,
             \A i \in DOMAIN wire[s] : \E j \in DOMAIN wire'[s] : wire'[s][j] = wire[s][i],
             \A i \in DOMAIN wire[o] : \E j \in DOMAIN wire'[o] : wire'[o][j] = wire[o][i]
      PROVE  HeardInTime(s)'
  BY <1>1, <1>2, <1>4, NothingComesBack, SidesOther, HeardKept DEF o
<1>5. ASSUME NEW side \in Sides, NEW kind \in Kinds, UNCHANGED <<quiet, timer>>,
             wire' = [wire EXCEPT ![Other(side)] = @ \o OnWire(Other(side), kind)]
      PROVE  HeardInTime(s)'
  <2> DEFINE to == Other(side)
  <2>1. to \in Sides /\ wire[to] \in Seq(Messages)
    BY <1>1, SidesOther, TypeParts DEF Shape
  <2>2. wire'[to] = wire[to] \o OnWire(to, kind) /\ \A x \in Sides : x # to => wire'[x] = wire[x]
    BY <1>1, <1>5, <2>1, TypeParts DEF Shape
  <2> HIDE DEF to
  <2>3. \A i \in DOMAIN wire[to] : i \in DOMAIN wire'[to] /\ wire'[to][i] = wire[to][i]
    BY <2>1, <2>2, WireAdd
  <2>4. \A x \in Sides : \A i \in DOMAIN wire[x] : i \in DOMAIN wire'[x] /\ wire'[x][i] = wire[x][i]
    BY <2>2, <2>3
  <2> QED BY <1>3, <1>4, <1>5, <2>4
<1>6. ASSUME NEW side \in Sides, NEW kind, Read(side, kind), side = s PROVE HeardInTime(s)'
  BY <1>1, <1>6, JustHeard DEF Read
<1>7. ASSUME NEW side \in Sides, NEW kind, Read(side, kind), side = o
      PROVE  /\ quiet'[s] = quiet[s] /\ timer'[s] = timer[s] /\ wire[o] # <<>>
             /\ \A i \in DOMAIN wire[o] :
                  \/ wire[o][i] = Head(wire[o])
                  \/ \E j \in DOMAIN Tail(wire[o]) : Tail(wire[o])[j] = wire[o][i]
  BY <1>1, <1>3, <1>7, WireTake DEF Read, ResetTimer, TypeOK
<1>8. ASSUME NEW side \in Sides, ReadPing(side) PROVE HeardInTime(s)'
  <2>1. CASE side = s
    BY <1>6, <1>8, <2>1 DEF ReadPing
  <2>2. CASE side = o
    <3>1. /\ quiet'[s] = quiet[s] /\ timer'[s] = timer[s]
          /\ \A i \in DOMAIN wire[o] :
                  \/ wire[o][i] = Head(wire[o])
                  \/ \E j \in DOMAIN Tail(wire[o]) : Tail(wire[o])[j] = wire[o][i]
      BY <1>7, <1>8, <2>2 DEF ReadPing
    <3>2. wire'[o] = Tail(wire[o]) /\ wire'[s] = wire[s] \o OnWire(s, "Pong")
      BY <1>1, <1>3, <1>8, <2>2, TypeParts DEF ReadPing, Shape
    <3>3. /\ \A i \in DOMAIN wire[s] : i \in DOMAIN wire'[s] /\ wire'[s][i] = wire[s][i]
          /\ \E i \in DOMAIN wire'[s] : Fresh(wire'[s][i], "Pong")
      <4>1. "Pong" \in Kinds /\ wire[s] \in Seq(Messages)
        BY <1>3 DEF Kinds
      <4>2. \A i \in DOMAIN wire[s] : i \in DOMAIN wire'[s] /\ wire'[s][i] = wire[s][i]
        BY <3>2, <4>1, WireAdded
      <4>3. ~cut /\ Up(s) => \E i \in DOMAIN wire'[s] : Fresh(wire'[s][i], "Pong")
        BY <3>2, <4>1, WireAdded
      <4> QED BY <1>2, <4>2, <4>3
    <3>4. CASE quiet[s] + timer[s] <= PingInterval
      BY <3>1, <3>4 DEF HeardInTime
    <3>5. CASE Answered(s)
      BY <3>1, <3>3, <3>5 DEF Answered, HeardInTime
    <3>6. CASE Asked(s)
      <4>1. PICK i \in DOMAIN wire[o] :
              wire[o][i].kind = "Ping" /\ quiet[s] <= PingInterval + wire[o][i].age
        BY <3>6 DEF Asked, o
      <4>2. CASE wire[o][i] = Head(wire[o])
        <5>1. wire[o][i].age \in 0..Delay
          BY <1>3 DEF Messages
        <5>2. quiet[s] <= PingInterval + Delay + 0
          BY <1>3, <4>1, <5>1
        <5>3. Answered(s)'
          BY <3>1, <3>3, <5>2 DEF Answered, Fresh
        <5> QED BY <5>3 DEF HeardInTime
      <4>3. CASE \E j \in DOMAIN Tail(wire[o]) : Tail(wire[o])[j] = wire[o][i]
        <5>1. Asked(s)'
          BY <3>1, <3>2, <4>1, <4>3 DEF Asked, o
        <5> QED BY <5>1 DEF HeardInTime
      <4> QED BY <3>1, <4>2, <4>3
    <3> QED BY <1>2, <3>4, <3>5, <3>6 DEF HeardInTime, o
  <2> QED BY <1>3, <2>1, <2>2
<1>9. ASSUME NEW side \in Sides, ReadPingLate(side) PROVE FALSE
  <2>1. ~Up(Other(side))
    BY <1>9 DEF ReadPingLate
  <2> QED BY <1>2, <1>3, <2>1 DEF o
<1>10. ASSUME NEW side \in Sides, ReadOther(side) PROVE HeardInTime(s)'
  <2>0. PICK kind : Read(side, kind) /\ kind # "Ping" /\ wire' = [wire EXCEPT ![side] = Tail(@)]
    BY <1>10 DEF ReadOther
  <2>1. CASE side = s
    BY <1>6, <2>0, <2>1
  <2>2. CASE side = o
    <3>1. /\ quiet'[s] = quiet[s] /\ timer'[s] = timer[s]
          /\ \A i \in DOMAIN wire[o] :
                  \/ wire[o][i] = Head(wire[o])
                  \/ \E j \in DOMAIN Tail(wire[o]) : Tail(wire[o])[j] = wire[o][i]
      BY <1>7, <2>0, <2>2
    <3>2. wire'[o] = Tail(wire[o]) /\ wire'[s] = wire[s] /\ Head(wire[o]).kind # "Ping"
      BY <1>1, <1>3, <2>0, <2>2, TypeParts DEF Shape, Read
    <3>3. Asked(s) => Asked(s)'
      BY <3>1, <3>2 DEF Asked, o
    <3>4. Answered(s) => Answered(s)'
      BY <3>1, <3>2 DEF Answered
    <3> QED BY <1>2, <3>1, <3>3, <3>4 DEF HeardInTime, o
  <2> QED BY <1>3, <2>1, <2>2
<1>11. ASSUME NEW side \in Sides, ReadEnd(side) \/ PingPanics(side) \/ Close(side) PROVE FALSE
  <2>1. status'[side] # "up"
    BY <1>1, <1>11 DEF ReadEnd, PingPanics, Close, Finish, TypeOK
  <2> QED BY <1>3, <2>1 DEF Up, o
<1>12. ASSUME NEW side \in Sides, Ping(side) PROVE HeardInTime(s)'
  <2>0. wire' = [wire EXCEPT ![Other(side)] = @ \o OnWire(Other(side), "Ping")] /\ UNCHANGED quiet
    BY <1>12 DEF Ping
  <2>1. CASE side = s
    <3>1. wire'[o] = wire[o] \o OnWire(o, "Ping") /\ wire'[s] = wire[s] /\ timer[s] = 0
      BY <1>1, <1>3, <1>12, <2>0, <2>1, TypeParts DEF Shape, Ping, PingDue, o
    <3>2. /\ \A i \in DOMAIN wire[o] : i \in DOMAIN wire'[o] /\ wire'[o][i] = wire[o][i]
          /\ \E i \in DOMAIN wire'[o] : Fresh(wire'[o][i], "Ping")
      <4>1. "Ping" \in Kinds /\ wire[o] \in Seq(Messages)
        BY <1>3 DEF Kinds
      <4>2. \A i \in DOMAIN wire[o] : i \in DOMAIN wire'[o] /\ wire'[o][i] = wire[o][i]
        BY <3>1, <4>1, WireAdded
      <4>3. ~cut /\ Up(o) => \E i \in DOMAIN wire'[o] : Fresh(wire'[o][i], "Ping")
        BY <3>1, <4>1, WireAdded
      <4> QED BY <1>2, <4>2, <4>3
    <3>3. quiet[s] + timer[s] <= PingInterval => Asked(s)'
      <4>1. quiet[s] + timer[s] <= PingInterval => quiet[s] <= PingInterval + 0
        BY <1>3, <3>1
      <4> QED BY <2>0, <3>2, <4>1 DEF Asked, o, Fresh
    <3>4. Answered(s) => Answered(s)'
      BY <2>0, <3>1 DEF Answered
    <3>5. Asked(s) => Asked(s)'
      BY <2>0, <3>2 DEF Asked, o
    <3> QED BY <1>2, <3>3, <3>4, <3>5 DEF HeardInTime, o
  <2>2. CASE side = o
    <3>1. timer'[s] = timer[s] /\ quiet'[s] = quiet[s] /\ wire'[o] = wire[o]
          /\ wire'[s] = wire[s] \o OnWire(s, "Ping")
      BY <1>1, <1>3, <1>12, <2>0, <2>2, TypeParts DEF Ping, ResetTimer, TypeOK, Shape
    <3>2. \A i \in DOMAIN wire[s] : i \in DOMAIN wire'[s] /\ wire'[s][i] = wire[s][i]
      BY <1>3, <3>1, WireAdd DEF Kinds
    <3>3. Answered(s) => Answered(s)'
      BY <3>1, <3>2 DEF Answered
    <3>4. Asked(s) => Asked(s)'
      BY <3>1 DEF Asked, o
    <3> QED BY <1>2, <3>1, <3>3, <3>4 DEF HeardInTime, o
  <2> QED BY <1>3, <2>1, <2>2
<1>13. ASSUME NEW side \in Sides, PingTimesOut(side) PROVE FALSE
  BY <1>2, <1>3, <1>13 DEF PingTimesOut
<1>14. ASSUME NEW side \in Sides, Send(side) PROVE HeardInTime(s)'
  BY <1>5, <1>14 DEF Send, Kinds
<1>15. CASE Cut
  BY <1>15 DEF Cut
<1>16. CASE Tick
  <2>1. /\ timer[s] > 0 /\ timer'[s] = timer[s] - 1 /\ quiet'[s] = quiet[s] + 1
        /\ \A x \in {s, o} : /\ \A i \in DOMAIN wire[x] : wire[x][i].age < Delay
                             /\ wire'[x] = [i \in DOMAIN wire[x] |-> Older(wire[x][i])]
    BY <1>2, <1>3, <1>16 DEF Tick, Older
  <2>2. \A x \in {s, o} : \A i \in DOMAIN wire[x] :
          /\ i \in DOMAIN wire'[x] /\ wire'[x][i].kind = wire[x][i].kind
          /\ wire'[x][i].age = wire[x][i].age + 1 /\ wire[x][i].age \in Nat
    <3> SUFFICES ASSUME NEW x \in {s, o}, NEW i \in DOMAIN wire[x]
                 PROVE  /\ i \in DOMAIN wire'[x] /\ wire'[x][i].kind = wire[x][i].kind
                        /\ wire'[x][i].age = wire[x][i].age + 1 /\ wire[x][i].age \in Nat
      OBVIOUS
    <3>1. wire[x][i] \in Messages /\ wire'[x][i] = Older(wire[x][i]) /\ i \in DOMAIN wire'[x]
      BY <1>3, <2>1
    <3>2. wire[x][i].age \in Nat
      BY <3>1, KeepAliveAssumption DEF Messages
    <3> QED BY <2>1, <3>1, <3>2, OlderTyped
  <2>3. CASE quiet[s] + timer[s] <= PingInterval
    BY <1>3, <2>1, <2>3 DEF HeardInTime
  <2>4. CASE Answered(s)
    <3>1. PICK i \in DOMAIN wire[s] : quiet[s] <= PingInterval + Delay + wire[s][i].age
      BY <2>4 DEF Answered
    <3>2. quiet'[s] <= PingInterval + Delay + wire'[s][i].age /\ i \in DOMAIN wire'[s]
      BY <1>3, <2>1, <2>2, <3>1
    <3> QED BY <3>2 DEF Answered, HeardInTime
  <2>5. CASE Asked(s)
    <3>1. PICK i \in DOMAIN wire[o] :
              wire[o][i].kind = "Ping" /\ quiet[s] <= PingInterval + wire[o][i].age
      BY <2>5 DEF Asked, o
    <3>2. /\ i \in DOMAIN wire'[o] /\ wire'[o][i].kind = "Ping"
          /\ wire'[o][i].age = wire[o][i].age + 1 /\ wire[o][i].age \in Nat
      BY <2>2, <3>1
    <3>3. quiet[s] + 1 <= PingInterval + (wire[o][i].age + 1)
      BY <1>3, <3>1, <3>2
    <3>4. Asked(s)'
      BY <2>1, <3>2, <3>3 DEF Asked, o
    <3> QED BY <3>4 DEF HeardInTime
  <2> QED BY <1>2, <2>3, <2>4, <2>5 DEF HeardInTime, o
<1>17. CASE UNCHANGED vars
  BY <1>4, <1>17 DEF vars
<1> QED BY <1>8, <1>9, <1>10, <1>11, <1>12, <1>13, <1>14, <1>15, <1>16, <1>17
        DEF Next, Handler, pingRemote

\* At the start all have just been heard.
LEMMA AliveInit == Init => AliveInv
<1> SUFFICES ASSUME Init PROVE AliveInv
  OBVIOUS
<1>1. TypeOK
  <2>1. Shape(wire)
    BY DEF Init, Shape
  <2>2. 0 \in 0..Deadline /\ PingInterval \in 0..PingInterval /\ 0 \in 0..(MaxFailures - 1)
    BY KeepAliveAssumption
  <2>3. /\ status \in [Sides -> {"up", "over", "dead"}] /\ cut \in BOOLEAN /\ silent \in Nat
        /\ timer \in [Sides -> 0..PingInterval] /\ quiet \in [Sides -> 0..Deadline]
        /\ failures \in [Sides -> 0..(MaxFailures - 1)]
    BY <2>2 DEF Init
  <2> QED BY <2>1, <2>3, TypeParts
<1>2. \A side \in Sides : HeardInTime(side)
  BY KeepAliveAssumption DEF Init, HeardInTime
<1> QED BY <1>1, <1>2 DEF AliveInv

-----------------------------------------------------------------------------
(* The end of a connection that carries nothing *)

\* The most time past the deadline when the next ping is due, after n that failed.
Spent(n) == (n + 1) * PingInterval

\* A side that waits for its deadline has waited since the silence began, and one past it
\* counts each interval; what was under way when the network failed is gone.
GivesUpInTime(side) ==
  /\ cut => wire[side] = <<>>
  /\ (cut /\ Up(side) /\ ~Expired(side)) => silent <= quiet[side]
  /\ (cut /\ Up(side) /\ Expired(side)) =>
       silent + timer[side] <= Deadline + Spent(failures[side])

SilenceInv ==
  /\ TypeOK
  /\ ~cut => silent = 0
  /\ \A side \in Sides : GivesUpInTime(side)

\* One failure is one interval, and they are never more than those that make it panic.
LEMMA Patient ==
  ASSUME NEW n \in 0..(MaxFailures - 1)
  PROVE  /\ Spent(n) \in Nat /\ PingInterval <= Spent(n)
         /\ Spent(n + 1) = Spent(n) + PingInterval
         /\ Spent(n) <= MaxFailures * PingInterval
<1>1. PingInterval \in Nat /\ MaxFailures \in Nat /\ n \in Nat /\ n + 1 <= MaxFailures
  BY KeepAliveAssumption
<1>2. (n + 1) * PingInterval = n * PingInterval + PingInterval
  BY <1>1
<1>3. (n + 2) * PingInterval = (n + 1) * PingInterval + PingInterval
  BY <1>1
<1>4. n * PingInterval \in Nat /\ (n + 1) * PingInterval \in Nat
  BY <1>1
<1>5. (n + 1) * PingInterval <= MaxFailures * PingInterval
  <2> DEFINE d == MaxFailures - (n + 1)
  <2>1. d \in Nat /\ MaxFailures = (n + 1) + d
    BY <1>1
  <2> HIDE DEF d
  <2>2. MaxFailures * PingInterval = (n + 1) * PingInterval + d * PingInterval
    BY <1>1, <2>1
  <2>3. d * PingInterval \in Nat
    BY <1>1, <2>1
  <2> QED BY <1>1, <1>4, <2>2, <2>3
<1>6. (n + 1) + 1 = n + 2
  BY <1>1
<1> QED BY <1>1, <1>2, <1>3, <1>4, <1>5, <1>6 DEF Spent

\* What TypeOK says of a side.
LEMMA SideTyped ==
  ASSUME TypeOK, NEW s \in Sides
  PROVE  /\ timer[s] \in Nat /\ timer[s] <= PingInterval /\ quiet[s] \in Nat /\ quiet[s] <= Deadline
         /\ failures[s] \in 0..(MaxFailures - 1) /\ silent \in Nat
         /\ PingInterval \in Nat /\ Deadline \in Nat
<1>1. PingInterval \in Nat /\ Deadline \in Nat
  BY KeepAliveAssumption
<1>2. /\ timer[s] \in 0..PingInterval /\ quiet[s] \in 0..Deadline
      /\ failures[s] \in 0..(MaxFailures - 1) /\ silent \in Nat
  BY DEF TypeOK
<1> QED BY <1>1, <1>2

\* No side holds out longer than NoticedInTime allows.
LEMMA SilenceBounds ==
  ASSUME SilenceInv
  PROVE  NoticedInTime
<1> SUFFICES ASSUME NEW s \in Sides, cut, Up(s)
             PROVE  silent <= Deadline + MaxFailures * PingInterval
  BY DEF NoticedInTime, Patience
<1> DEFINE most == MaxFailures * PingInterval
<1> DEFINE now == Spent(failures[s])
<1>1. /\ timer[s] \in Nat /\ quiet[s] \in Nat /\ quiet[s] <= Deadline
      /\ silent \in Nat /\ Deadline \in Nat
  BY SideTyped DEF SilenceInv
<1>2. now \in Nat /\ now <= most /\ most \in Nat
  <2>1. failures[s] \in 0..(MaxFailures - 1) /\ MaxFailures * PingInterval \in Nat
    BY SideTyped, KeepAliveAssumption DEF SilenceInv
  <2> QED BY <2>1, Patient
<1>3. /\ ~Expired(s) => silent <= quiet[s]
      /\ Expired(s) => silent + timer[s] <= Deadline + now
  BY DEF SilenceInv, GivesUpInTime
<1> HIDE DEF most, now
<1>4. silent <= Deadline + most
  BY <1>1, <1>2, <1>3
<1> QED BY <1>4 DEF most

\* A step that leaves alone what GivesUpInTime speaks of, or takes a side away.
LEMMA SilenceKept ==
  ASSUME NEW s \in Sides, GivesUpInTime(s), UNCHANGED <<cut, silent>>,
         cut => wire'[s] = wire[s],
         Up(s)' => /\ Up(s) /\ quiet'[s] = quiet[s]
                   /\ timer'[s] = timer[s] /\ failures'[s] = failures[s]
  PROVE  GivesUpInTime(s)'
BY DEF GivesUpInTime, Expired, Spent

\* A silent network takes what is sent with it.
LEMMA SilentWire ==
  ASSUME NEW s \in Sides, NEW to \in Sides, NEW kind, Shape(wire), cut, wire[s] = <<>>,
         wire' = [wire EXCEPT ![to] = @ \o OnWire(to, kind)]
  PROVE  wire'[s] = <<>>
<1>1. OnWire(to, kind) = <<>>
  BY DEF OnWire
<1>2. wire[to] \in Seq(Messages) /\ wire \in [Sides -> Seq(Messages)]
  BY DEF Shape
<1>3. wire[to] \o <<>> = wire[to]
  BY <1>2
<1> QED BY <1>1, <1>2, <1>3

\* A wire with no message on it.
LEMMA NothingThere ==
  ASSUME NEW q \in Seq(Messages), DOMAIN q = {}
  PROVE  q = <<>>
<1>1. DOMAIN q = 1..Len(q) /\ Len(q) \in Nat
  OBVIOUS
<1>2. Len(q) = 0
  <2>1. CASE Len(q) >= 1
    <3>1. 1 \in 1..Len(q)
      BY <1>1, <2>1
    <3> QED BY <1>1, <3>1
  <2> QED BY <1>1, <2>1
<1> QED BY <1>2

\* Every step counts what the silence has lasted against the pings that failed.
LEMMA SilenceStep ==
  ASSUME SilenceInv, [Next]_vars
  PROVE  SilenceInv'
<1>1. /\ TypeOK /\ TypeOK' /\ Shape(wire) /\ (~cut => silent = 0)
      /\ \A s \in Sides : GivesUpInTime(s)
      /\ status \in [Sides -> {"up", "over", "dead"}]
      /\ timer \in [Sides -> 0..PingInterval] /\ quiet \in [Sides -> 0..Deadline]
      /\ failures \in [Sides -> 0..(MaxFailures - 1)]
  BY TypeStep, TypeParts DEF SilenceInv
<1>2. ~cut' => ~cut /\ silent' = 0
  <2>1. cut => cut'
    BY <1>1, NothingComesBack
  <2>2. CASE Tick
    BY <1>1, <2>1, <2>2 DEF Tick
  <2>3. CASE UNCHANGED silent
    BY <1>1, <2>1, <2>3
  <2> QED BY <2>2, <2>3, ClockOnly
<1> SUFFICES ASSUME NEW s \in Sides, cut' PROVE GivesUpInTime(s)'
  <2>1. CASE ~cut'
    BY <1>1, <1>2, <2>1 DEF SilenceInv, GivesUpInTime
  <2> QED BY <1>1, <1>2, <2>1 DEF SilenceInv
<1>3. GivesUpInTime(s)
  BY <1>1
<1>4. ASSUME NEW side \in Sides, NEW kind, Read(side, kind) PROVE FALSE
  <2>1. cut /\ wire[side] # <<>>
    BY <1>4 DEF Read
  <2> QED BY <1>1, <2>1 DEF GivesUpInTime
<1>5. ASSUME NEW side \in Sides, Handler(side) PROVE FALSE
  <2>1. ~ReadEnd(side)
    BY DEF ReadEnd
  <2> QED BY <1>4, <1>5, <2>1 DEF Handler, ReadPing, ReadPingLate, ReadOther
<1>6. ASSUME NEW side \in Sides, Ping(side) PROVE GivesUpInTime(s)'
  <2>1. /\ UNCHANGED <<status, quiet, cut, silent>> /\ ~Expired(side)
        /\ wire' = [wire EXCEPT ![Other(side)] = @ \o OnWire(Other(side), "Ping")]
        /\ timer' = [timer EXCEPT ![side] = PingInterval]
        /\ failures' = [failures EXCEPT ![side] = 0]
    BY <1>6 DEF Ping, ResetTimer
  <2>2. cut /\ wire[s] = <<>>
    BY <1>3, <2>1 DEF GivesUpInTime
  <2>3. wire'[s] = <<>>
    BY <1>1, <2>1, <2>2, SilentWire, SidesOther
  <2>4. CASE s = side
    BY <1>3, <2>1, <2>3, <2>4 DEF GivesUpInTime, Up, Expired
  <2>5. CASE s # side
    <3>1. timer'[s] = timer[s] /\ failures'[s] = failures[s]
      BY <1>1, <2>1, <2>5
    <3> QED BY <1>3, <2>1, <2>2, <2>3, <3>1, SilenceKept DEF Up
  <2> QED BY <2>4, <2>5
<1>7. ASSUME NEW side \in Sides, PingTimesOut(side) PROVE GivesUpInTime(s)'
  <2>1. /\ UNCHANGED <<status, quiet, wire, cut, silent>> /\ timer[side] = 0 /\ Expired(side)
        /\ timer' = [timer EXCEPT ![side] = PingInterval]
        /\ failures' = [failures EXCEPT ![side] = @ + 1]
    BY <1>7 DEF PingTimesOut, PingDue, ResetTimer
  <2>2. CASE s = side
    <3>1. timer'[s] = PingInterval /\ failures'[s] = failures[s] + 1 /\ timer[s] = 0
      BY <1>1, <2>1, <2>2
    <3>2. /\ Spent(failures[s]) \in Nat
          /\ Spent(failures'[s]) = Spent(failures[s]) + PingInterval
      BY <1>1, <3>1, Patient
    <3>3. ASSUME Up(s), cut PROVE silent' + timer'[s] <= Deadline + Spent(failures'[s])
      <4>1. silent + timer[s] <= Deadline + Spent(failures[s])
        BY <1>3, <2>1, <2>2, <3>3 DEF GivesUpInTime
      <4>2. silent \in Nat /\ PingInterval \in Nat /\ Deadline \in Nat
        BY <1>1, SideTyped
      <4> QED BY <2>1, <3>1, <3>2, <4>1, <4>2
    <3>4. Up(s)' => Up(s)
      BY <2>1 DEF Up
    <3>5. Expired(s)' /\ wire'[s] = wire[s] /\ cut
      BY <2>1, <2>2 DEF Expired
    <3>6. GivesUpInTime(s)' <=>
            /\ cut' => wire'[s] = <<>>
            /\ (cut' /\ Up(s)' /\ ~Expired(s)') => silent' <= quiet'[s]
            /\ (cut' /\ Up(s)' /\ Expired(s)') =>
                 silent' + timer'[s] <= Deadline + Spent(failures'[s])
      BY DEF GivesUpInTime, Spent
    <3> QED BY <1>3, <3>3, <3>4, <3>5, <3>6 DEF GivesUpInTime
  <2>3. CASE s # side
    <3>1. timer'[s] = timer[s] /\ failures'[s] = failures[s]
      BY <1>1, <2>1, <2>3
    <3> QED BY <1>3, <2>1, <3>1, SilenceKept DEF Up
  <2> QED BY <2>2, <2>3
<1>8. ASSUME NEW side \in Sides, PingPanics(side) \/ Close(side) PROVE GivesUpInTime(s)'
  <2>1. UNCHANGED <<timer, quiet, failures, wire, cut, silent>>
    BY <1>8 DEF PingPanics, Close
  <2>2. Up(s)' => Up(s)
    BY <1>1, <1>8 DEF PingPanics, Close, Finish, Up
  <2> QED BY <1>3, <2>1, <2>2, SilenceKept
<1>9. ASSUME NEW side \in Sides, Send(side) PROVE GivesUpInTime(s)'
  <2>1. /\ UNCHANGED <<status, timer, quiet, failures, cut, silent>>
        /\ wire' = [wire EXCEPT ![Other(side)] = @ \o OnWire(Other(side), "other")]
    BY <1>9 DEF Send
  <2>2. cut /\ wire[s] = <<>>
    BY <1>3, <2>1 DEF GivesUpInTime
  <2>3. wire'[s] = <<>>
    BY <1>1, <2>1, <2>2, SilentWire, SidesOther
  <2> QED BY <1>3, <2>1, <2>2, <2>3, SilenceKept DEF Up
<1>10. CASE Cut
  <2>1. /\ UNCHANGED <<status, timer, quiet, failures, silent>> /\ wire'[s] = <<>> /\ silent = 0
    BY <1>1, <1>10 DEF Cut
  <2>2. timer[s] \in Nat /\ timer[s] <= PingInterval /\ quiet[s] \in Nat /\ Deadline \in Nat
    BY <1>1, SideTyped
  <2>3. Spent(failures[s]) \in Nat /\ PingInterval <= Spent(failures[s]) /\ PingInterval \in Nat
    BY <1>1, SideTyped, Patient
  <2>4. silent' <= quiet'[s]
    BY <2>1, <2>2
  <2>5. Spent(failures[s])' = Spent(failures[s])
    BY <2>1 DEF Spent
  <2>6. silent' + timer'[s] <= Deadline + Spent(failures[s])'
    BY <2>1, <2>2, <2>3, <2>5
  <2> QED BY <2>1, <2>4, <2>6 DEF GivesUpInTime
<1>11. CASE Tick
  <2>1. /\ UNCHANGED <<status, failures, cut>> /\ cut /\ silent' \in {silent, silent + 1}
        /\ Up(s) => timer[s] > 0
        /\ Up(s) => timer'[s] = timer[s] - 1
        /\ Up(s) => quiet'[s] = IF Expired(s) THEN quiet[s] ELSE quiet[s] + 1
    BY <1>11 DEF Tick
  <2>2. wire'[s] = <<>>
    <3>1. wire[s] = <<>>
      BY <1>3, <2>1 DEF GivesUpInTime
    <3>2. wire'[s] = [i \in DOMAIN wire[s] |-> Older(wire[s][i])]
      BY <1>11 DEF Tick, Older
    <3>3. wire'[s] \in Seq(Messages) /\ DOMAIN wire'[s] = {}
      <4>1. Shape(wire)'
        BY <1>1 DEF TypeOK, Shape, Messages
      <4>2. wire'[s] \in Seq(Messages)
        BY <4>1 DEF Shape
      <4>3. DOMAIN wire[s] = {}
        BY <3>1
      <4> QED BY <3>2, <4>2, <4>3
    <3> QED BY <3>3, NothingThere
  <2>3. /\ timer[s] \in Nat /\ timer[s] <= PingInterval /\ quiet[s] \in Nat /\ silent \in Nat
        /\ PingInterval \in Nat /\ Deadline \in Nat
    BY <1>1, SideTyped
  <2>4. Spent(failures[s]) \in Nat /\ PingInterval <= Spent(failures[s])
    BY <1>1, SideTyped, Patient
  <2>5. Spent(failures[s])' = Spent(failures[s])
    BY <2>1 DEF Spent
  <2>6. ASSUME Up(s), Expired(s)
        PROVE  Expired(s)' /\ silent' + timer'[s] <= Deadline + Spent(failures[s])'
    <3>1. silent + timer[s] <= Deadline + Spent(failures[s])
      BY <1>3, <2>1, <2>6 DEF GivesUpInTime
    <3>2. timer'[s] = timer[s] - 1 /\ quiet'[s] = quiet[s] /\ timer[s] > 0
      BY <2>1, <2>6
    <3>3. silent' + timer'[s] <= Deadline + Spent(failures[s])
      BY <2>1, <2>3, <2>4, <3>1, <3>2
    <3> QED BY <2>5, <2>6, <3>2, <3>3 DEF Expired
  <2>7. ASSUME Up(s), ~Expired(s)
        PROVE  /\ silent' <= quiet'[s]
               /\ Expired(s)' => silent' + timer'[s] <= Deadline + Spent(failures[s])'
    <3>1. silent <= quiet[s]
      BY <1>3, <2>1, <2>7 DEF GivesUpInTime
    <3>2. timer'[s] = timer[s] - 1 /\ quiet'[s] = quiet[s] + 1 /\ timer[s] > 0
      BY <2>1, <2>7
    <3>3. silent' <= quiet'[s]
      BY <2>1, <2>3, <3>1, <3>2
    <3>4. ASSUME quiet'[s] = Deadline PROVE silent' + timer'[s] <= Deadline + Spent(failures[s])
      BY <2>1, <2>3, <2>4, <3>2, <3>3, <3>4
    <3> QED BY <2>5, <3>3, <3>4 DEF Expired
  <2>8. Up(s)' => Up(s)
    BY <2>1 DEF Up
  <2> QED BY <2>2, <2>6, <2>7, <2>8 DEF GivesUpInTime
<1>12. CASE UNCHANGED vars
  BY <1>3, <1>12, SilenceKept DEF vars, Up
<1> QED BY <1>5, <1>6, <1>7, <1>8, <1>9, <1>10, <1>11, <1>12 DEF Next, pingRemote

\* At the start nothing is silent.
LEMMA SilenceInit == Init => SilenceInv
<1> SUFFICES ASSUME Init PROVE SilenceInv
  OBVIOUS
<1>1. TypeOK
  BY AliveInit DEF AliveInv
<1>2. ~cut /\ silent = 0
  BY DEF Init
<1> QED BY <1>1, <1>2 DEF SilenceInv, GivesUpInTime

\* Timers stay within their intervals and failures below the number at which the pinger
\* panics.
THEOREM TypesAreKept == Spec => []TypeOK
<1>1. Init => TypeOK
  BY AliveInit DEF AliveInv
<1> QED BY <1>1, TypeStep, PTL DEF Spec

\* With any interval between pings and any deadline that exceeds it by more than a round
\* trip, no connection that works is given up, whatever is sent over it.
THEOREM ConnectionsStayAlive == Spec => []StaysAlive
<1>1. AliveInv => StaysAlive
  BY HeardIsAlive
<1> QED BY <1>1, AliveInit, AliveStep, PTL DEF Spec

\* When the network fails without a word, each side that is still there after the deadline
\* has counted every ping interval since, so that it is gone after MaxFailures of them.
THEOREM SilenceIsNoticedInTime == Spec => []NoticedInTime
<1>1. SilenceInv => NoticedInTime
  BY SilenceBounds
<1> QED BY <1>1, SilenceInit, SilenceStep, PTL DEF Spec
=============================================================================

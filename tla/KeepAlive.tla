------------------------------ MODULE KeepAlive ------------------------------
(***************************************************************************)
(* The two ends of an established connection over time: on each the loop   *)
(* of handleIncomingMessages, which moves the deadline and resets the ping *)
(* timer for every message it reads, and the goroutine of pingRemote.      *)
(*                                                                         *)
(* Time is counted in whole units.  What is due -- a timer that ran out, a *)
(* message that travelled for Delay units -- happens before time goes on.  *)
(***************************************************************************)
EXTENDS Naturals, Sequences

CONSTANTS
  PingInterval,   \* DefaultPingInterval (30 s in the code)
  Deadline,       \* DeadlineInterval (5 min)
  Delay,          \* how long a message takes at most, its handling included
  MaxFailures,    \* MaxSequentialPingFailures
  MaxInFlight     \* bound: other messages on the way to each side

\* Deadline is ten times PingInterval in the code; more than this need not hold.
ASSUME KeepAliveAssumption ==
  /\ PingInterval \in Nat \ {0} /\ Delay \in Nat \ {0}
  /\ Deadline \in Nat /\ Deadline > PingInterval + 2 * Delay
  /\ MaxFailures \in Nat \ {0}
  /\ MaxInFlight \in Nat

Sides == {"node", "listener"}
Kinds == {"Ping", "Pong", "other"}

VARIABLES
  status,    \* of each side: connected, its handler ended, or its process panicked
  timer,     \* of each side: time until the next ping
  quiet,     \* of each side: time since the deadline was moved, Deadline when it passed
  failures,  \* of each side: failureCount
  wire,      \* to each side: the messages on their way, with their ages
  cut,       \* the network swallows everything
  silent     \* history: for how long it has, up to TooLong

vars == <<status, timer, quiet, failures, wire, cut, silent>>

TypeOK ==
  /\ status \in [Sides -> {"up", "over", "dead"}]
  /\ timer \in [Sides -> 0..PingInterval]
  /\ quiet \in [Sides -> 0..Deadline]
  /\ failures \in [Sides -> 0..(MaxFailures - 1)]
  /\ wire \in [Sides -> Seq([kind : Kinds, age : 0..Delay])]
  /\ cut \in BOOLEAN
  /\ silent \in Nat

Init ==
  /\ status = [side \in Sides |-> "up"]
  /\ timer = [side \in Sides |-> PingInterval]
  /\ quiet = [side \in Sides |-> 0]
  /\ failures = [side \in Sides |-> 0]
  /\ wire = [side \in Sides |-> <<>>]
  /\ cut = FALSE
  /\ silent = 0

Other(side) == IF side = "node" THEN "listener" ELSE "node"

Up(side) == status[side] = "up"
Expired(side) == quiet[side] = Deadline

\* What kind on its way to a side leaves on the wire.
OnWire(to, kind) ==
  IF cut \/ ~Up(to) THEN <<>> ELSE <<[kind |-> kind, age |-> 0]>>

ResetTimer(side) == timer' = [timer EXCEPT ![side] = PingInterval]
Finish(side, how) == status' = [status EXCEPT ![side] = how]

-----------------------------------------------------------------------------
(* handleIncomingMessages *)

\* A message is read: reset the ping timer, handle it, move the deadline.
Read(side, kind) ==
  /\ Up(side) /\ ~Expired(side)
  /\ wire[side] # <<>> /\ Head(wire[side]).kind = kind
  /\ ResetTimer(side)
  /\ quiet' = [quiet EXCEPT ![side] = 0]
  /\ UNCHANGED <<failures, cut, silent>>

\* A Ping is answered at once.
ReadPing(side) ==
  /\ Read(side, "Ping")
  /\ wire' = [wire EXCEPT ![side] = Tail(@), ![Other(side)] = @ \o OnWire(Other(side), "Pong")]
  /\ UNCHANGED status

\* The answer cannot be sent, the other side is gone: the loop ends.
ReadPingLate(side) ==
  /\ Read(side, "Ping")
  /\ ~Up(Other(side))
  /\ wire' = [wire EXCEPT ![side] = Tail(@)]
  /\ Finish(side, "over")

\* A Pong, or a message for the registry or for remoteMailboxes.
ReadOther(side) ==
  /\ Read(side, "Pong") \/ Read(side, "other")
  /\ wire' = [wire EXCEPT ![side] = Tail(@)]
  /\ UNCHANGED status

\* io.EOF: the loop ends and closes resetPingTimer, which ends the pinger.
ReadEnd(side) ==
  /\ Up(side) /\ ~Expired(side) /\ ~cut
  /\ ~Up(Other(side)) /\ wire[side] = <<>>
  /\ Finish(side, "over")
  /\ UNCHANGED <<timer, quiet, failures, wire, cut, silent>>

-----------------------------------------------------------------------------
(* pingRemote *)

PingDue(side) == Up(side) /\ timer[side] = 0

\* The timer ran out: a ping is sent, or swallowed.
Ping(side) ==
  /\ PingDue(side) /\ ~Expired(side)
  /\ wire' = [wire EXCEPT ![Other(side)] = @ \o OnWire(Other(side), "Ping")]
  /\ ResetTimer(side)
  /\ failures' = [failures EXCEPT ![side] = 0]
  /\ UNCHANGED <<status, quiet, cut, silent>>

\* Seeded fault for PingTimesOut: failures are not counted.
PingTimesOutUncounted(side) ==
  /\ PingDue(side) /\ Expired(side)
  /\ ResetTimer(side)
  /\ UNCHANGED <<status, quiet, failures, wire, cut, silent>>

\* Seeded fault for PingTimesOut: one failure more is let pass.
PingTimesOutOnceMore(side) ==
  /\ PingDue(side) /\ Expired(side)
  /\ failures[side] < MaxFailures
  /\ failures' = [failures EXCEPT ![side] = @ + 1]
  /\ ResetTimer(side)
  /\ UNCHANGED <<status, quiet, wire, cut, silent>>

\* The deadline has passed, so that Encode fails with a temporary error.
PingTimesOut(side) ==
  /\ PingDue(side) /\ Expired(side)
  /\ failures[side] + 1 < MaxFailures
  /\ failures' = [failures EXCEPT ![side] = @ + 1]
  /\ ResetTimer(side)
  /\ UNCHANGED <<status, quiet, wire, cut, silent>>

\* Once too often, or the error is a permanent one: panic.  Nobody recovers in
\* this goroutine, so that the process ends.
PingPanics(side) ==
  /\ PingDue(side)
  /\ Expired(side) \/ (~cut /\ ~Up(Other(side)))
  /\ Finish(side, "dead")
  /\ UNCHANGED <<timer, quiet, failures, wire, cut, silent>>

-----------------------------------------------------------------------------
(* Everything else *)

\* There is room for one more message.
Room(to) == Len(SelectSeq(wire[to], LAMBDA m : m.kind = "other")) < MaxInFlight

\* Seeded fault for Send: what is sent also resets the ping timer.
SendResetsTimer(side) ==
  /\ Up(side) /\ ~Expired(side) /\ Room(Other(side))
  /\ wire' = [wire EXCEPT ![Other(side)] = @ \o OnWire(Other(side), "other")]
  /\ ResetTimer(side)
  /\ UNCHANGED <<status, quiet, failures, cut, silent>>

\* remoteMailboxes or the handler sends a message.
Send(side) ==
  /\ Up(side) /\ ~Expired(side) /\ Room(Other(side))
  /\ wire' = [wire EXCEPT ![Other(side)] = @ \o OnWire(Other(side), "other")]
  /\ UNCHANGED <<status, timer, quiet, failures, cut, silent>>

\* One side closes the connection (nodeConnector.Stop, or its process ends).
Close(side) ==
  /\ Up(side)
  /\ Finish(side, "over")
  /\ UNCHANGED <<timer, quiet, failures, wire, cut, silent>>

\* From here nothing arrives, and nobody is told.
Cut ==
  /\ ~cut
  /\ cut' = TRUE
  /\ wire' = [side \in Sides |-> <<>>]
  /\ UNCHANGED <<status, timer, quiet, failures, silent>>

\* The deadline, and then all the failures that the pinger lets pass.
Patience == Deadline + MaxFailures * PingInterval

\* Bound of silent: more is not told apart.
TooLong == Patience + 1

Tick ==
  /\ \E side \in Sides : Up(side)
  /\ \A side \in Sides : Up(side) =>
       /\ timer[side] > 0
       /\ ~Expired(side) => \A i \in DOMAIN wire[side] : wire[side][i].age < Delay
       /\ cut \/ Up(Other(side)) \/ wire[side] # <<>> \/ Expired(side)
  /\ timer' = [side \in Sides |-> IF Up(side) THEN timer[side] - 1 ELSE timer[side]]
  /\ quiet' = [side \in Sides |-> IF Up(side) /\ ~Expired(side) THEN quiet[side] + 1 ELSE quiet[side]]
  /\ wire' = [side \in Sides |-> [i \in DOMAIN wire[side] |->
                IF wire[side][i].age < Delay THEN [wire[side][i] EXCEPT !.age = @ + 1]
                                             ELSE wire[side][i]]]
  /\ silent' = IF cut /\ silent < TooLong THEN silent + 1 ELSE silent
  /\ UNCHANGED <<status, failures, cut>>

-----------------------------------------------------------------------------
Handler(side) == ReadPing(side) \/ ReadPingLate(side) \/ ReadOther(side) \/ ReadEnd(side)

pingRemote(side) == Ping(side) \/ PingTimesOut(side) \/ PingPanics(side)

Next ==
  \/ \E side \in Sides : Handler(side) \/ pingRemote(side) \/ Send(side) \/ Close(side)
  \/ Cut
  \/ Tick

Spec == Init /\ [][Next]_vars

(* Time passes, and what is due is done.  Nobody has to send or to close. *)
FairSpec ==
  /\ Spec
  /\ WF_vars(Tick)
  /\ \A side \in Sides : WF_vars(Handler(side)) /\ WF_vars(pingRemote(side))

-----------------------------------------------------------------------------
(* What pings are for *)

\* While the network delivers and both sides are there no deadline passes, however
\* one-sided the traffic is: each side hears a message, a ping or a pong in time.
StaysAlive == \A side \in Sides :
  (~cut /\ Up(side) /\ Up(Other(side))) => quiet[side] <= PingInterval + 2 * Delay

\* A connection that carries nothing any more is given up by both sides once the
\* deadline has passed and so many pings have failed; no timer that is reset, and no
\* failure that is not counted, puts that off.
NoticedInTime == \A side \in Sides :
  (cut /\ Up(side)) => silent <= Patience

\* ... and so in the end.
SilenceIsNoticed == cut ~> \A side \in Sides : ~Up(side)
=============================================================================

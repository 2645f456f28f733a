------------------------------ MODULE Mailbox ------------------------------
(***************************************************************************)
(* One Mailbox of mailbox.go, used by any number of goroutines.            *)
(*                                                                         *)
(* The code keeps the oldest message in a channel of capacity one, so that *)
(* a receiver can select on it, and the others in a slice behind a mutex.  *)
(* Every send on the channel and its close happen with the mutex held, but *)
(* a receiver takes from the channel WITHOUT it and refills the channel    *)
(* from the slice afterwards.  send itself takes the message out of the    *)
(* channel and puts it back, to learn whether the mailbox is closed.       *)
(*                                                                         *)
(* A step here is what other goroutines can observe as one: an operation   *)
(* on the channel, or a stretch of a critical section with one channel     *)
(* operation in it.  Links (OnCloseNotify) are in CloseNotify.tla; the     *)
(* notifications Close sends while it holds the mutex are the gap between  *)
(* CloseShut and CloseDone.                                                *)
(***************************************************************************)
EXTENDS Naturals, Sequences, SequencesExt

CONSTANTS
  Senders,    \* goroutines that call Address.Send
  Receivers,  \* goroutines that call Receive or ReceiveAsync in a loop
  Matchers,   \* goroutines that call ReceiveMatch in a loop
  Closers,    \* goroutines that call Close once
  Messages,   \* the values sent, each of them at most once (the bound)
  Matching,   \* the values the matcher function accepts
  Nil,        \* Go's nil, a legal argument of Send
  Free        \* the holder of the mutex when nobody holds it

Procs == Senders \cup Receivers \cup Matchers \cup Closers

\* The four roles are different goroutines, and no goroutine is Free.
ASSUME RolesAssumption ==
  /\ Senders \cap (Receivers \cup Matchers \cup Closers) = {}
  /\ Receivers \cap (Matchers \cup Closers) = {}
  /\ Matchers \cap Closers = {}
  /\ Free \notin Procs
  /\ Matching \subseteq Messages

\* mailbox.go:691: "ReceiveMatch assumes that it is the only function running
\* against the Mailbox" -- the only receiving one.
ASSUME MatcherIsAlone ==
  /\ \A a, b \in Matchers : a = b
  /\ Matchers # {} => Receivers = {}

VARIABLES
  mu,         \* Mailbox.mu: the goroutine that holds it, or Free
  chan,       \* Mailbox.nextMessage: what its buffer of one holds
  messages,   \* Mailbox.messages
  closed,     \* Mailbox.closed, and nextMessage is closed (set together)
  registered, \* the mailbox is in its node's table (mailboxes.mailboxes)
  pc,         \* where each goroutine is
  held,       \* the message each goroutine holds in a local variable
  unsent,     \* messages no goroutine has sent yet
  sent,       \* history: messages whose send returned nil
  got         \* history: messages handed to receivers

vars == <<mu, chan, messages, closed, registered, pc, held, unsent, sent, got>>

\* Where goroutines wait for the mutex, and where they hold it.
WaitLabels == {"sendLock", "refill", "matchLock", "closeLock"}
HoldLabels == {"sendPutBack", "matchTest", "closeNotify"}
RestLabels == {"idle", "told", "gone", "leaked"}
Labels == WaitLabels \cup HoldLabels \cup RestLabels

TypeOK ==
  /\ mu \in Procs \cup {Free}
  /\ chan \in Seq(Messages) /\ Len(chan) <= 1
  /\ messages \in Seq(Messages)
  /\ closed \in BOOLEAN
  /\ registered \in BOOLEAN
  /\ pc \in [Procs -> Labels]
  /\ held \in [Procs -> Messages \cup {Nil}]
  /\ unsent \subseteq Messages
  /\ sent \in Seq(Messages)
  /\ got \in Seq(Messages)

Init ==
  /\ mu = Free
  /\ chan = <<>>
  /\ messages = <<>>
  /\ closed = FALSE
  /\ registered = TRUE
  /\ pc = [p \in Procs |-> "idle"]
  /\ held = [p \in Procs |-> Nil]
  /\ unsent = Messages
  /\ sent = <<>>
  /\ got = <<>>

Goto(p, label) == pc' = [pc EXCEPT ![p] = label]
Hold(p, m) == held' = [held EXCEPT ![p] = m]

-----------------------------------------------------------------------------
(* Mailbox.send *)

SendCall(s) ==
  /\ pc[s] = "idle"
  /\ \E m \in unsent : unsent' = unsent \ {m} /\ Hold(s, m)
  /\ Goto(s, "sendLock")
  /\ UNCHANGED <<mu, chan, messages, closed, registered, sent, got>>

\* The channel is closed: ErrMailboxClosed.
SendRefused(s) ==
  /\ pc[s] = "sendLock" /\ mu = Free
  /\ closed
  /\ Goto(s, "idle")
  /\ UNCHANGED <<mu, chan, messages, closed, registered, held, unsent, sent, got>>

\* A message is in the channel: take it out and append the new one.
SendTakePrev(s) ==
  /\ pc[s] = "sendLock" /\ mu = Free
  /\ chan # <<>>
  /\ mu' = s
  /\ chan' = <<>>
  /\ messages' = Append(messages, held[s])
  /\ sent' = Append(sent, held[s])
  /\ Hold(s, Head(chan))
  /\ Goto(s, "sendPutBack")
  /\ UNCHANGED <<closed, registered, unsent, got>>

\* ... and put the one taken out back, which wakes a receiver.
SendPutBack(s) ==
  /\ pc[s] = "sendPutBack"
  /\ chan' = Append(chan, held[s])
  /\ mu' = Free
  /\ Goto(s, "idle")
  /\ UNCHANGED <<messages, closed, registered, held, unsent, sent, got>>

\* Seeded fault: the new message goes straight to the empty channel.
SendOvertakes(s) ==
  /\ pc[s] = "sendLock" /\ mu = Free
  /\ ~closed /\ chan = <<>>
  /\ chan' = <<held[s]>>
  /\ sent' = Append(sent, held[s])
  /\ Goto(s, "idle")
  /\ UNCHANGED <<mu, messages, closed, registered, held, unsent, got>>

\* The channel is empty: append the new one, move the first to the channel.
SendDirect(s) ==
  /\ pc[s] = "sendLock" /\ mu = Free
  /\ ~closed /\ chan = <<>>
  /\ LET all == Append(messages, held[s])
     IN chan' = <<Head(all)>> /\ messages' = Tail(all)
  /\ sent' = Append(sent, held[s])
  /\ Goto(s, "idle")
  /\ UNCHANGED <<mu, closed, registered, held, unsent, got>>

-----------------------------------------------------------------------------
(* Mailbox.Receive and Mailbox.ReceiveAsync.  A ReceiveAsync that finds the
   channel empty and open returns (nil, false) and changes nothing. *)

\* The select takes the message, without the mutex.
Take(r) ==
  /\ pc[r] = "idle"
  /\ chan # <<>>
  /\ chan' = Tail(chan)
  /\ Hold(r, Head(chan))
  /\ got' = Append(got, Head(chan))
  /\ Goto(r, "refill")
  /\ UNCHANGED <<mu, messages, closed, registered, unsent, sent>>

\* "if len(m.messages) > 0 { select { case m.nextMessage <- m.messages[0] ..."
MoveUp ==
  IF messages # <<>> /\ chan = <<>>
    THEN chan' = <<Head(messages)>> /\ messages' = Tail(messages)
    ELSE UNCHANGED <<chan, messages>>

\* Seeded fault: Receive returns without the refill.
RefillNothing(r) ==
  /\ pc[r] = "refill" /\ mu = Free
  /\ Goto(r, "idle")
  /\ UNCHANGED <<mu, chan, messages, closed, registered, held, unsent, sent, got>>

\* Lock, refill the channel, unlock, return the message taken.
Refill(r) ==
  /\ pc[r] = "refill" /\ mu = Free
  /\ MoveUp
  /\ Goto(r, "idle")
  /\ UNCHANGED <<mu, closed, registered, held, unsent, sent, got>>

\* Seeded fault: Close sends one MailboxClosed instead of closing the channel.
TakeClosedOnce(r) ==
  /\ pc[r] = "idle"
  /\ closed /\ chan = <<>>
  /\ \A q \in Procs : pc[q] # "told"
  /\ Goto(r, "told")
  /\ UNCHANGED <<mu, chan, messages, closed, registered, held, unsent, sent, got>>

\* The channel is closed: the receiver gets MailboxClosed, and stops.
TakeClosed(r) ==
  /\ pc[r] = "idle"
  /\ closed /\ chan = <<>>
  /\ Goto(r, "told")
  /\ UNCHANGED <<mu, chan, messages, closed, registered, held, unsent, sent, got>>

\* ctx.Done() is ready and the select picks it: the goroutine gives up.
Cancel(r) ==
  /\ pc[r] = "idle"
  /\ Goto(r, "gone")
  /\ UNCHANGED <<mu, chan, messages, closed, registered, held, unsent, sent, got>>

-----------------------------------------------------------------------------
(* Mailbox.ReceiveMatch *)

MatchTake(p) ==
  /\ pc[p] = "idle"
  /\ chan # <<>>
  /\ chan' = Tail(chan)
  /\ Hold(p, Head(chan))
  /\ Goto(p, "matchLock")
  /\ UNCHANGED <<mu, messages, closed, registered, unsent, sent, got>>

\* Lock; the mailbox was closed meanwhile: return MailboxClosed.  There is no
\* Unlock on this path: the goroutine goes on with the mutex held for ever.
MatchFindsClosed(p) ==
  /\ pc[p] = "matchLock" /\ mu = Free
  /\ closed
  /\ mu' = p
  /\ Goto(p, "leaked")
  /\ UNCHANGED <<chan, messages, closed, registered, held, unsent, sent, got>>

\* Seeded fault: the message found in the channel is appended, not prepended.
MatchRecheckAppends(p) ==
  /\ pc[p] = "matchLock" /\ mu = Free
  /\ ~closed
  /\ mu' = p
  /\ chan' = <<>>
  /\ messages' = messages \o chan
  /\ Goto(p, "matchTest")
  /\ UNCHANGED <<closed, registered, held, unsent, sent, got>>

\* Seeded fault: no second look at the channel once the mutex is held.
MatchNoRecheck(p) ==
  /\ pc[p] = "matchLock" /\ mu = Free
  /\ mu' = p
  /\ Goto(p, "matchTest")
  /\ UNCHANGED <<chan, messages, closed, registered, held, unsent, sent, got>>

\* Lock; a message that arrived in the channel since goes back to the front of
\* the slice, unless it is nil, which is dropped.
MatchRecheck(p) ==
  /\ pc[p] = "matchLock" /\ mu = Free
  /\ ~closed
  /\ mu' = p
  /\ chan' = <<>>
  /\ messages' = IF chan # <<>> /\ Head(chan) # Nil THEN chan \o messages ELSE messages
  /\ Goto(p, "matchTest")
  /\ UNCHANGED <<closed, registered, held, unsent, sent, got>>

\* Seeded fault: a match is returned without refilling the channel.
MatchHeldNoRefill(p) ==
  /\ pc[p] = "matchTest"
  /\ held[p] \in Matching
  /\ got' = Append(got, held[p])
  /\ mu' = Free
  /\ Goto(p, "idle")
  /\ UNCHANGED <<chan, messages, closed, registered, held, unsent, sent>>

\* The message taken matches: refill the channel and return it.
MatchHeld(p) ==
  /\ pc[p] = "matchTest"
  /\ held[p] \in Matching
  /\ got' = Append(got, held[p])
  /\ MoveUp
  /\ mu' = Free
  /\ Goto(p, "idle")
  /\ UNCHANGED <<closed, registered, held, unsent, sent>>

\* It does not: put it back, and return the first match of the slice.
MatchLater(p) ==
  /\ pc[p] = "matchTest"
  /\ held[p] \notin Matching
  /\ chan' = Append(chan, held[p])
  /\ \E i \in 1..Len(messages) :
       /\ messages[i] \in Matching
       /\ \A j \in 1..(i - 1) : messages[j] \notin Matching
       /\ got' = Append(got, messages[i])
       /\ messages' = RemoveAt(messages, i)
  /\ mu' = Free
  /\ Goto(p, "idle")
  /\ UNCHANGED <<closed, registered, held, unsent, sent>>

\* Nothing matches: put the message back, unlock, go round the loop again.
MatchNone(p) ==
  /\ pc[p] = "matchTest"
  /\ held[p] \notin Matching
  /\ \A i \in 1..Len(messages) : messages[i] \notin Matching
  /\ chan' = Append(chan, held[p])
  /\ mu' = Free
  /\ Goto(p, "idle")
  /\ UNCHANGED <<messages, closed, registered, held, unsent, sent, got>>

-----------------------------------------------------------------------------
(* Mailbox.Close *)

\* Leave the table before locking: from here no lookup finds the mailbox.
CloseUnregister(c) ==
  /\ pc[c] = "idle"
  /\ registered' = FALSE
  /\ Goto(c, "closeLock")
  /\ UNCHANGED <<mu, chan, messages, closed, held, unsent, sent, got>>

\* Seeded fault: the early return of Close comes without the unlock.
CloseAgainKeepsLock(c) ==
  /\ pc[c] = "closeLock" /\ mu = Free
  /\ closed
  /\ mu' = c
  /\ Goto(c, "gone")
  /\ UNCHANGED <<chan, messages, closed, registered, held, unsent, sent, got>>

\* Somebody closed it before.
CloseAgain(c) ==
  /\ pc[c] = "closeLock" /\ mu = Free
  /\ closed
  /\ Goto(c, "gone")
  /\ UNCHANGED <<mu, chan, messages, closed, registered, held, unsent, sent, got>>

\* Seeded fault: Close does not wait for the mutex.
CloseShutUnlocked(c) ==
  /\ pc[c] = "closeLock"
  /\ ~closed
  /\ chan' = <<>>
  /\ closed' = TRUE
  /\ Goto(c, "closeNotify")
  /\ UNCHANGED <<mu, messages, registered, held, unsent, sent, got>>

\* Drain the channel, close it.
CloseShut(c) ==
  /\ pc[c] = "closeLock" /\ mu = Free
  /\ ~closed
  /\ mu' = c
  /\ chan' = <<>>
  /\ closed' = TRUE
  /\ Goto(c, "closeNotify")
  /\ UNCHANGED <<messages, registered, held, unsent, sent, got>>

\* Everyone linked was told: drop the messages, unlock.
CloseDone(c) ==
  /\ pc[c] = "closeNotify"
  /\ messages' = <<>>
  /\ mu' = Free
  /\ Goto(c, "gone")
  /\ UNCHANGED <<chan, closed, registered, held, unsent, sent, got>>

-----------------------------------------------------------------------------
Send(s) == \/ SendCall(s) \/ SendRefused(s) \/ SendTakePrev(s)
           \/ SendPutBack(s) \/ SendDirect(s)

Receive(r) == Take(r) \/ Refill(r) \/ TakeClosed(r) \/ Cancel(r)

ReceiveMatch(p) == \/ MatchTake(p) \/ MatchFindsClosed(p) \/ MatchRecheck(p)
                   \/ MatchHeld(p) \/ MatchLater(p) \/ MatchNone(p)
                   \/ TakeClosed(p) \/ Cancel(p)

Close(c) == \/ CloseUnregister(c) \/ CloseAgain(c) \/ CloseShut(c) \/ CloseDone(c)

Next == \/ \E s \in Senders : Send(s)
        \/ \E r \in Receivers : Receive(r)
        \/ \E p \in Matchers : ReceiveMatch(p)
        \/ \E c \in Closers : Close(c)

Spec == Init /\ [][Next]_vars

\* What a goroutine does once its call has begun.
SendGoesOn(s) == SendRefused(s) \/ SendTakePrev(s) \/ SendPutBack(s) \/ SendDirect(s)
ReceiveGoesOn(r) == Take(r) \/ Refill(r) \/ TakeClosed(r)
CloseGoesOn(c) == CloseAgain(c) \/ CloseShut(c) \/ CloseDone(c)
MatchGoesOn(p) == \/ MatchTake(p) \/ MatchFindsClosed(p) \/ MatchRecheck(p)
                  \/ MatchHeld(p) \/ MatchLater(p) \/ MatchNone(p) \/ TakeClosed(p)

(* The Go scheduler runs every goroutine that can run.  Nobody has to send, to
   close, or to cancel. *)
FairSpec ==
  /\ Spec
  /\ \A s \in Senders : WF_vars(SendGoesOn(s))
  /\ \A r \in Receivers : WF_vars(ReceiveGoesOn(r))
  /\ \A p \in Matchers : WF_vars(MatchGoesOn(p))
  /\ \A c \in Closers : WF_vars(CloseGoesOn(c))

(* ReceiveMatch locks and unlocks for ever while nothing matches, so the others
   also need that sync.Mutex lets no waiter starve (its starvation mode hands the
   mutex to a goroutine that waited for a millisecond). *)
StarvationFreeSpec ==
  /\ FairSpec
  /\ \A s \in Senders : SF_vars(SendGoesOn(s))
  /\ \A c \in Closers : SF_vars(CloseGoesOn(c))

-----------------------------------------------------------------------------
(* What the mailbox promises *)

\* The goroutine of ReceiveMatch, when there is one.
TheMatcher == CHOOSE p \in Matchers : TRUE

\* The message ReceiveMatch took off the channel and has not judged yet.
InHand == IF Matchers # {} /\ pc[TheMatcher] \in {"matchLock", "matchTest"}
            THEN <<held[TheMatcher]>> ELSE <<>>

\* The message a send took out of the channel and has not put back yet.
InWindow == IF mu \in Senders THEN <<held[mu]>> ELSE <<>>

\* The messages in the mailbox, oldest first, wherever they are.
Pending == IF closed THEN <<>> ELSE InHand \o InWindow \o chan \o messages

Queue == INSTANCE MessageQueue WITH
           queue <- Pending, open <- ~closed, Selective <- (Matchers # {})

\* The lock-and-channel mailbox is a queue: accepted messages leave it in the
\* order they were accepted (with ReceiveMatch: the oldest match leaves), none
\* is lost, duplicated or overtaken by the take-out/put-back of send, by two
\* receivers that refill the channel at once, or by a close in between.
ImplementsQueue == Queue!Spec

\* Nobody ever puts a message on the channel while it is closed (a panic) or
\* full (which would block with the mutex held): send's and ReceiveMatch's
\* unguarded puts rely on this.
PutIsSafe == \A p \in Procs :
  pc[p] \in {"sendPutBack", "matchTest"} => ~closed /\ chan = <<>>

\* No lost wakeup: messages waiting in the slice behind an empty channel are
\* always some goroutine's next business; otherwise every receiver could sleep
\* on the channel with messages in the mailbox.
NoStranded ==
  (chan = <<>> /\ messages # <<>> /\ ~closed) =>
    \E p \in Procs : pc[p] \in {"refill", "matchLock", "matchTest", "sendPutBack"}

\* No call hangs on the mutex: whoever waits for it or holds it is done with it
\* later -- Send, the refill of Receive, and both Closes of two.
EveryCallReturns == \A p \in Procs :
  pc[p] \in WaitLabels \cup HoldLabels ~> pc[p] \in RestLabels

\* An accepted message reaches a receiver, unless the mailbox is closed or
\* everyone who received from it stopped.
EveryMessageReceived == \A m \in Messages :
  (m \in ToSet(sent)) ~>
    (m \in ToSet(got) \/ closed \/ \A r \in Receivers : pc[r] \in {"told", "gone"})

\* mailbox.go:627, "FIXME: Verify three listeners on one shared mailbox all get
\* closed properly": after a Close every receiver learns of it or had stopped.
EveryReceiverTold == \A r \in Receivers :
  closed ~> pc[r] \in {"told", "gone"}

\* ReceiveMatch returns every message its matcher accepts sooner or later, though
\* it takes the others out of the channel and puts them back all the time; unless
\* the mailbox is closed or nobody receives from it any more.
EveryMatchReceived == \A m \in Matching :
  (m \in ToSet(sent)) ~>
    (m \in ToSet(got) \/ closed \/ \A p \in Matchers : pc[p] \in {"told", "gone"})

-----------------------------------------------------------------------------
(* The inductive invariant behind the safety properties *)

\* Each role is only ever at the labels of its own calls.
RoleOK ==
  /\ \A s \in Senders : pc[s] \in {"idle", "sendLock", "sendPutBack"}
  /\ \A r \in Receivers : pc[r] \in {"idle", "refill", "told", "gone"}
  /\ \A p \in Matchers : pc[p] \in {"idle", "matchLock", "matchTest", "told", "gone", "leaked"}
  /\ \A c \in Closers : pc[c] \in {"idle", "closeLock", "closeNotify", "gone"}

\* A goroutine on its way to the channel or the slice carries a message.
HeldOK == \A p \in Procs :
  pc[p] \in {"sendLock", "sendPutBack", "matchLock", "matchTest"} => held[p] \in Messages

\* Exactly the goroutine between a lock and its unlock holds the mutex.
MutexHeldInside == \A p \in Procs :
  (mu = p) <=> (pc[p] \in HoldLabels \cup {"leaked"})

\* A closed channel is drained, and the slice outlives it only inside Close.
ClosedIsDrained ==
  /\ closed => chan = <<>> /\ (messages # <<>> => mu \in Closers)
  /\ \A c \in Closers : pc[c] = "closeNotify" => closed

\* What every step of the mailbox preserves, and all that the safety properties
\* above need of the code: roles, mutex discipline, drained channels, wakeups.
IInv == /\ TypeOK /\ RoleOK /\ HeldOK /\ MutexHeldInside
        /\ PutIsSafe /\ ClosedIsDrained /\ NoStranded

-----------------------------------------------------------------------------
(* What the documentation says and the code does not do *)

\* mailbox.go:783, "It is not an error to Close an already-Closed mailbox", and
\* mailbox_test.go:329: every call of Close returns.
CloseReturns == \A c \in Closers : pc[c] = "closeLock" ~> pc[c] = "gone"
=============================================================================

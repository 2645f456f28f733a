---------------------------- MODULE CloseNotify ----------------------------
(***************************************************************************)
(* Links between the mailboxes of one node: Address.OnCloseNotify,         *)
(* Address.RemoveNotify and the notifications of Mailbox.Close.            *)
(*                                                                         *)
(* Close sends MailboxClosed to every linked address while it holds the    *)
(* mutex of the mailbox it closes, and that send takes the mutex of the    *)
(* mailbox it is for.  What keeps two mailboxes linked to each other from  *)
(* deadlocking is that Close leaves the node's table before it locks, and  *)
(* that it finds its targets through the table.  OnCloseNotify of a closed *)
(* mailbox sends with the mutex held too, and there nothing keeps it from  *)
(* a deadlock: its target mostly carries a pointer to its mailbox, as the  *)
(* addresses of newLocalMailbox do, and skips the table.                   *)
(*                                                                         *)
(* The queues of the mailboxes are abstracted to the notices they accepted *)
(* (Mailbox.tla has the queue); a send to another mailbox is one step that *)
(* needs its mutex.                                                        *)
(***************************************************************************)
EXTENDS Naturals, FiniteSets

CONSTANTS
  Mailboxes,     \* the mailboxes of the node, all created before the start
  Procs,         \* goroutines that close, link and unlink them
  Free,          \* the holder of a mutex nobody holds
  CachedTargets, \* whether the argument of OnCloseNotify holds its *Mailbox already, as
                 \* what New returns does, or has to look it up: a subset of BOOLEAN
  MaxCalls       \* bound: calls the goroutines make in all

ASSUME LinkAssumption ==
  /\ Free \notin Procs
  /\ CachedTargets \subseteq BOOLEAN
  /\ MaxCalls \in Nat

VARIABLES
  table,   \* mailboxes.mailboxes: the mailboxes a lookup by ID finds
  mu,      \* Mailbox.mu of each mailbox
  closed,  \* Mailbox.closed
  notify,  \* Mailbox.notificationAddresses
  told,    \* the mailboxes whose MailboxClosed each mailbox has accepted
  pc,      \* where each goroutine is
  at,      \* the mailbox its call is made on
  to,      \* the mailbox it is about to notify, link or unlink
  cached,  \* whether the target address of its OnCloseNotify is resolved already
  todo,    \* what is left of Close's loop over notificationAddresses
  calls,   \* calls made so far
  linked,  \* history: the addresses whose OnCloseNotify returned, not removed since
  left,    \* history: when each mailbox left the table, 0 while it is there
  clock    \* history: how many have left

vars == <<table, mu, closed, notify, told, pc, at, to, cached, todo, calls, linked, left, clock>>
locals == <<at, to, cached, todo, calls>>
history == <<linked, left, clock>>

Labels == {"idle", "closeLock", "notifying", "notifyLock",
           "linkLock", "telling", "tellLock", "unlinkLock"}

TypeOK ==
  /\ table \subseteq Mailboxes
  /\ mu \in [Mailboxes -> Procs \cup {Free}]
  /\ closed \in [Mailboxes -> BOOLEAN]
  /\ notify \in [Mailboxes -> SUBSET Mailboxes]
  /\ told \in [Mailboxes -> SUBSET Mailboxes]
  /\ pc \in [Procs -> Labels]
  /\ at \in [Procs -> Mailboxes]
  /\ to \in [Procs -> Mailboxes]
  /\ cached \in [Procs -> BOOLEAN]
  /\ todo \in [Procs -> SUBSET Mailboxes]
  /\ calls \in Nat
  /\ linked \in [Mailboxes -> SUBSET Mailboxes]
  /\ left \in [Mailboxes -> Nat]
  /\ clock \in Nat

Init ==
  /\ table = Mailboxes
  /\ mu = [m \in Mailboxes |-> Free]
  /\ closed = [m \in Mailboxes |-> FALSE]
  /\ notify = [m \in Mailboxes |-> {}]
  /\ told = [m \in Mailboxes |-> {}]
  /\ pc = [p \in Procs |-> "idle"]
  /\ \E m \in Mailboxes :    \* any: they mean nothing while no call is made
       at = [p \in Procs |-> m] /\ to = [p \in Procs |-> m]
  /\ cached = [p \in Procs |-> FALSE]
  /\ todo = [p \in Procs |-> {}]
  /\ calls = 0
  /\ linked = [m \in Mailboxes |-> {}]
  /\ left = [m \in Mailboxes |-> 0]
  /\ clock = 0

Goto(p, label) == pc' = [pc EXCEPT ![p] = label]
Lock(p, m) == mu[m] = Free /\ mu' = [mu EXCEPT ![m] = p]
Unlock(m) == mu' = [mu EXCEPT ![m] = Free]

\* A goroutine begins a call on mailbox a.
Begin(p, a) ==
  /\ pc[p] = "idle"
  /\ calls < MaxCalls
  /\ calls' = calls + 1
  /\ at' = [at EXCEPT ![p] = a]

\* Seeded fault for Deliver: a send does not look at closed.
DeliverAnyway(a, t) == told' = [told EXCEPT ![t] = @ \cup {a}]

\* MailboxClosed(a) reaches the queue of t, unless t is closed.
Deliver(a, t) ==
  told' = IF closed[t] THEN told ELSE [told EXCEPT ![t] = @ \cup {a}]

-----------------------------------------------------------------------------
(* Mailbox.Close *)

\* Seeded fault for CloseUnregister: Close leaves its mailbox in the table.
CloseKeepsRegistered(p, a) ==
  /\ Begin(p, a)
  /\ Goto(p, "closeLock")
  /\ UNCHANGED <<table, mu, closed, notify, told, to, cached, todo, history>>

\* m.parent.unregisterMailbox(m.id), before locking.
CloseUnregister(p, a) ==
  /\ Begin(p, a)
  /\ table' = table \ {a}
  /\ IF a \in table
       THEN clock' = clock + 1 /\ left' = [left EXCEPT ![a] = clock + 1]
       ELSE UNCHANGED <<clock, left>>
  /\ Goto(p, "closeLock")
  /\ UNCHANGED <<mu, closed, notify, told, to, cached, todo, linked>>

\* Seeded fault for CloseAgain: the early return leaves the mutex locked.
CloseAgainKeepsLock(p) ==
  /\ pc[p] = "closeLock"
  /\ Lock(p, at[p])
  /\ closed[at[p]]
  /\ Goto(p, "idle")
  /\ UNCHANGED <<table, closed, notify, told, locals, history>>

\* The channel is closed already: return.
CloseAgain(p) ==
  /\ pc[p] = "closeLock"
  /\ mu[at[p]] = Free
  /\ closed[at[p]]
  /\ Goto(p, "idle")
  /\ UNCHANGED <<table, mu, closed, notify, told, locals, history>>

\* Close the channel; the mutex stays held during the loop that follows.
CloseShut(p) ==
  /\ pc[p] = "closeLock"
  /\ Lock(p, at[p])
  /\ ~closed[at[p]]
  /\ closed' = [closed EXCEPT ![at[p]] = TRUE]
  /\ todo' = [todo EXCEPT ![p] = notify[at[p]]]
  /\ Goto(p, "notifying")
  /\ UNCHANGED <<table, notify, told, at, to, cached, calls, history>>

\* The loop takes an ID and looks it up: the table gives the mailbox ...
NotifyFound(p, t) ==
  /\ pc[p] = "notifying"
  /\ t \in todo[p] /\ t \in table
  /\ to' = [to EXCEPT ![p] = t]
  /\ Goto(p, "notifyLock")
  /\ UNCHANGED <<table, mu, closed, notify, told, at, cached, todo, calls, history>>

\* ... or it is gone, and noMailbox refuses the message.
NotifyMissing(p, t) ==
  /\ pc[p] = "notifying"
  /\ t \in todo[p] /\ t \notin table
  /\ todo' = [todo EXCEPT ![p] = @ \ {t}]
  /\ UNCHANGED <<table, mu, closed, notify, told, pc, at, to, cached, calls, history>>

\* The send locks the target, queues the message or is refused, and unlocks.
NotifyDeliver(p) ==
  /\ pc[p] = "notifyLock"
  /\ mu[to[p]] = Free
  /\ Deliver(at[p], to[p])
  /\ todo' = [todo EXCEPT ![p] = @ \ {to[p]}]
  /\ Goto(p, "notifying")
  /\ UNCHANGED <<table, mu, closed, notify, at, to, cached, calls, history>>

\* notificationAddresses = nil, unlock.
CloseDone(p) ==
  /\ pc[p] = "notifying"
  /\ todo[p] = {}
  /\ notify' = [notify EXCEPT ![at[p]] = {}]
  /\ Unlock(at[p])
  /\ Goto(p, "idle")
  /\ UNCHANGED <<table, closed, told, locals, history>>

-----------------------------------------------------------------------------
(* Address.OnCloseNotify: a.OnCloseNotify(t) *)

\* The address a carries its *Mailbox, or a lookup by ID finds it.
LinkCall(p, a, t) ==
  /\ Begin(p, a)
  /\ to' = [to EXCEPT ![p] = t]
  /\ \E c \in CachedTargets : cached' = [cached EXCEPT ![p] = c]
  /\ Goto(p, "linkLock")
  /\ UNCHANGED <<table, mu, closed, notify, told, todo, history>>

\* The address a carries a noMailbox, or the lookup finds nothing: the target is
\* sent MailboxClosed at once, with no mutex held.
LinkMissing(p, a, t) ==
  /\ Begin(p, a)
  /\ a \notin table
  /\ to' = [to EXCEPT ![p] = t]
  /\ \E c \in CachedTargets : cached' = [cached EXCEPT ![p] = c]
  /\ Goto(p, "telling")
  /\ UNCHANGED <<table, mu, closed, notify, told, todo, history>>

\* Seeded fault for LinkAdd: onCloseNotify does not look at closed.
LinkAddAnyway(p) ==
  /\ pc[p] = "linkLock"
  /\ mu[at[p]] = Free
  /\ notify' = [notify EXCEPT ![at[p]] = @ \cup {to[p]}]
  /\ linked' = [linked EXCEPT ![at[p]] = @ \cup {to[p]}]
  /\ Goto(p, "idle")
  /\ UNCHANGED <<table, mu, closed, told, locals, left, clock>>

\* Mailbox.onCloseNotify of an open mailbox.
LinkAdd(p) ==
  /\ pc[p] = "linkLock"
  /\ mu[at[p]] = Free
  /\ ~closed[at[p]]
  /\ notify' = [notify EXCEPT ![at[p]] = @ \cup {to[p]}]
  /\ linked' = [linked EXCEPT ![at[p]] = @ \cup {to[p]}]
  /\ Goto(p, "idle")
  /\ UNCHANGED <<table, mu, closed, told, locals, left, clock>>

\* Seeded fault for LinkClosed: a closed mailbox ignores the request.
LinkClosedSilently(p) ==
  /\ pc[p] = "linkLock"
  /\ mu[at[p]] = Free
  /\ closed[at[p]]
  /\ Goto(p, "idle")
  /\ UNCHANGED <<table, mu, closed, notify, told, locals, history>>

\* Mailbox.onCloseNotify of a closed one: send, with the mutex held.
LinkClosed(p) ==
  /\ pc[p] = "linkLock"
  /\ Lock(p, at[p])
  /\ closed[at[p]]
  /\ Goto(p, "telling")
  /\ UNCHANGED <<table, closed, notify, told, locals, history>>

\* target.Send finds the mailbox: cached in the address, or in the table.
TellFound(p) ==
  /\ pc[p] = "telling"
  /\ cached[p] \/ to[p] \in table
  /\ Goto(p, "tellLock")
  /\ UNCHANGED <<table, mu, closed, notify, told, locals, history>>

\* OnCloseNotify returns: the deferred unlock, when the mutex is held.
LinkReturn(p) ==
  /\ mu' = IF mu[at[p]] = p THEN [mu EXCEPT ![at[p]] = Free] ELSE mu
  /\ linked' = [linked EXCEPT ![at[p]] = @ \cup {to[p]}]
  /\ Goto(p, "idle")

\* target.Send finds nothing.
TellMissing(p) ==
  /\ pc[p] = "telling"
  /\ ~cached[p] /\ to[p] \notin table
  /\ LinkReturn(p)
  /\ UNCHANGED <<table, closed, notify, told, locals, left, clock>>

\* target.Send locks the target, queues the message or is refused, and unlocks.
TellDeliver(p) ==
  /\ pc[p] = "tellLock"
  /\ mu[to[p]] = Free
  /\ Deliver(at[p], to[p])
  /\ LinkReturn(p)
  /\ UNCHANGED <<table, closed, notify, locals, left, clock>>

-----------------------------------------------------------------------------
(* Address.RemoveNotify: a.RemoveNotify(t).  On a noMailbox it does nothing. *)

UnlinkCall(p, a, t) ==
  /\ Begin(p, a)
  /\ to' = [to EXCEPT ![p] = t]
  /\ Goto(p, "unlinkLock")
  /\ UNCHANGED <<table, mu, closed, notify, told, cached, todo, history>>

Unlink(p) ==
  /\ pc[p] = "unlinkLock"
  /\ mu[at[p]] = Free
  /\ notify' = [notify EXCEPT ![at[p]] = @ \ {to[p]}]
  /\ linked' = [linked EXCEPT ![at[p]] = @ \ {to[p]}]
  /\ Goto(p, "idle")
  /\ UNCHANGED <<table, mu, closed, told, locals, left, clock>>

-----------------------------------------------------------------------------
\* What a goroutine does once its call has begun.
GoOn(p) ==
  \/ CloseAgain(p) \/ CloseShut(p) \/ NotifyDeliver(p) \/ CloseDone(p)
  \/ \E t \in Mailboxes : NotifyFound(p, t) \/ NotifyMissing(p, t)
  \/ LinkAdd(p) \/ LinkClosed(p) \/ TellFound(p) \/ TellMissing(p) \/ TellDeliver(p)
  \/ Unlink(p)

Call(p) ==
  \/ \E a \in Mailboxes : CloseUnregister(p, a)
  \/ \E a, t \in Mailboxes : LinkCall(p, a, t) \/ LinkMissing(p, a, t) \/ UnlinkCall(p, a, t)

Next == \E p \in Procs : Call(p) \/ GoOn(p)

Spec == Init /\ [][Next]_vars

(* A goroutine that can run does, and sync.Mutex lets no waiter starve.  Nobody
   has to make a call. *)
FairSpec == Spec /\ \A p \in Procs : SF_vars(GoOn(p))

-----------------------------------------------------------------------------
(* What links promise *)

\* The goroutine that holds a's mutex waits for the mutex of t.
WaitsFor(a, t) == \E p \in Procs :
  /\ mu[a] = p
  /\ pc[p] \in {"notifyLock", "tellLock"}
  /\ to[p] = t

\* A set of mailboxes whose holders all wait for a mutex of the same set: a deadlock.
Circle(S) == \A a \in S : \E t \in S : WaitsFor(a, t)

\* The holder of a's mutex is an OnCloseNotify of the closed mailbox a, whose target
\* carries the mailbox t that left the table no later than a did.
LateForGone(a, t) == \E p \in Procs :
  /\ mu[a] = p /\ pc[p] = "tellLock" /\ to[p] = t /\ cached[p]
  /\ t \notin table /\ left[t] <= left[a]

\* The notifications of Close never deadlock, however many mailboxes are linked in a
\* ring and closed at once: whatever circle forms has in it an OnCloseNotify of a
\* closed mailbox, for an address that carries a mailbox which was gone before
\* (mailbox.go:564).
OnlyLateLinksDeadlock == \A S \in SUBSET Mailboxes :
  (S # {} /\ Circle(S)) => \E a, t \in S : LateForGone(a, t)

\* The mutexes nobody will ever release: of a circle, or held in wait for one.
Hanging == UNION {S \in SUBSET Mailboxes : Circle(S)}

\* What p needs next is such a mutex.
Hangs(p) ==
  \/ pc[p] \in {"closeLock", "linkLock", "unlinkLock"} /\ at[p] \in Hanging
  \/ pc[p] \in {"notifyLock", "tellLock"} /\ to[p] \in Hanging

\* An address whose OnCloseNotify returned, and that was not removed, is told of
\* the close, or is still on the list of a mailbox that is open or being closed;
\* only a target that is itself being closed is let down.
NoticeOwedOrPaid == \A a \in Mailboxes : \A t \in linked[a] :
  \/ a \in told[t]
  \/ t \notin table
  \/ ~closed[a] /\ t \in notify[a]
  \/ \E p \in Procs : mu[a] = p /\ at[p] = a /\ pc[p] \in {"notifying", "notifyLock"} /\ t \in todo[p]

\* Every Close, OnCloseNotify and RemoveNotify returns, unless it needs a mutex that
\* hangs in a circle, which takes a late OnCloseNotify as OnlyLateLinksDeadlock says.
EveryCallReturns == \A p \in Procs : pc[p] # "idle" ~> pc[p] = "idle" \/ Hangs(p)

\* An OnCloseNotify of a closed mailbox tells its target, when that stays open and no
\* other late OnCloseNotify has hung the mailbox.
LateLinkIsAnswered == \A p \in Procs : \A a, t \in Mailboxes :
  (pc[p] = "linkLock" /\ at[p] = a /\ to[p] = t /\ closed[a])
    ~> (a \in told[t] \/ t \notin table \/ Hangs(p))

\* mailbox.go:185, "OnCloseNotify requests that the target address receive a close
\* notice when the target address is closed": a call on a closed mailbox tells its
\* target, when that stays open.  The code does not: a goroutine that asked the
\* closed mailbox to tell itself holds its mutex forever.
LinkIsAnswered == \A p \in Procs : \A a, t \in Mailboxes :
  (pc[p] = "linkLock" /\ at[p] = a /\ to[p] = t /\ closed[a]) ~> (a \in told[t] \/ t \notin table)

-----------------------------------------------------------------------------
(* The abstract view *)

\* Close has left the table but not shut the channel while a mailbox is closing.
Phase == [a \in Mailboxes |->
  IF closed[a] THEN "closed" ELSE IF a \in table THEN "open" ELSE "closing"]

\* The list of a closed mailbox is Close's to work off, until that drops it.
Links == [a \in Mailboxes |-> IF closed[a] THEN {} ELSE notify[a]]

\* What goroutine p still has to tell: Close the rest of its loop, and a late
\* OnCloseNotify its target.
DueOf(p) == {at[p]} \X
  ((IF pc[p] \in {"notifying", "notifyLock"} THEN todo[p] ELSE {}) \cup
   (IF pc[p] \in {"notifyLock", "telling", "tellLock"} THEN {to[p]} ELSE {}))

Due == UNION {DueOf(p) : p \in Procs}

Notices == INSTANCE CloseNotices WITH phase <- Phase, links <- Links, due <- Due

\* Links with their mutexes, lists and lookups are the links of CloseNotices: a
\* notice goes only to who was linked when the mailbox shut or asked late, a link
\* taken back in time is not answered, no link gets lost between the two.
ImplementsNotices == Notices!Spec

-----------------------------------------------------------------------------
(* The inductive invariant behind the safety properties *)

\* A mailbox has a departure time exactly when it is not in the table any more.
LeftOK == \A a \in Mailboxes : left[a] <= clock /\ (a \in table <=> left[a] = 0)

\* Closed mailboxes have left the table, and so have those somebody is closing.
ClosedHasLeft ==
  /\ \A a \in Mailboxes : closed[a] => a \notin table
  /\ \A p \in Procs : pc[p] \in {"closeLock", "notifying", "notifyLock"} => at[p] \notin table

\* A mutex held over several steps is that of a closed mailbox, held by the
\* goroutine that closes it or that asked it for a notice; the former holds it
\* as long as it goes round its loop.
HolderOK ==
  /\ \A a \in Mailboxes : \A p \in Procs :
       mu[a] = p => /\ at[p] = a
                    /\ closed[a]
                    /\ pc[p] \in {"notifying", "notifyLock", "telling", "tellLock"}
  /\ \A p \in Procs : pc[p] \in {"notifying", "notifyLock"} => mu[at[p]] = p

\* A goroutine with the mutex of a that is about to lock a mailbox t it found in the
\* table, found it there when a had left: t leaves later than a, or has not left.
WaitsGoForward == \A p \in Procs :
  (pc[p] = "notifyLock" \/ (pc[p] = "tellLock" /\ ~cached[p])) /\ mu[at[p]] = p =>
    to[p] \in table \/ left[at[p]] < left[to[p]]

\* What every notice rests on ...
LinkInv == TypeOK /\ LeftOK /\ ClosedHasLeft /\ HolderOK /\ NoticeOwedOrPaid

\* ... and the order in which mutexes are taken, late links aside.
OrderInv == LinkInv /\ WaitsGoForward
=============================================================================

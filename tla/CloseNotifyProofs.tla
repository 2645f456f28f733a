------------------------- MODULE CloseNotifyProofs -------------------------
(***************************************************************************)
(* Proofs about CloseNotify for any number of mailboxes and goroutines:    *)
(* every link is answered or still owed an answer, and mailboxes deadlock  *)
(* only around a late link to one that had gone before.                    *)
(***************************************************************************)
EXTENDS CloseNotify, WellFoundedInduction, TLAPS

-----------------------------------------------------------------------------
(* Links are answered, however targets are found *)

LEMMA InitLinkInv == Init => LinkInv
  BY LinkAssumption
  DEF Init, LinkInv, TypeOK, LeftOK, ClosedHasLeft, HolderOK, NoticeOwedOrPaid, Labels

\* A step of a goroutine changes no local variable of another.
LEMMA LocalsAreOwn ==
  ASSUME TypeOK, NEW p \in Procs, Call(p) \/ GoOn(p), NEW q \in Procs, q # p
  PROVE  /\ pc'[q] = pc[q] /\ at'[q] = at[q] /\ to'[q] = to[q]
         /\ todo'[q] = todo[q] /\ cached'[q] = cached[q]
<1> USE DEF TypeOK, Goto, Begin, Lock, LinkReturn, locals
<1>1. pc'[q] = pc[q]
  <2>1. CASE Call(p)
    BY <2>1 DEF Call, CloseUnregister, LinkCall, LinkMissing, UnlinkCall
  <2>2. CASE GoOn(p)
    BY <2>2 DEF GoOn, CloseAgain, CloseShut, NotifyDeliver, CloseDone, NotifyFound, NotifyMissing,
                LinkAdd, LinkClosed, TellFound, TellMissing, TellDeliver, Unlink
  <2> QED BY <2>1, <2>2
<1>2. at'[q] = at[q] /\ to'[q] = to[q] /\ todo'[q] = todo[q] /\ cached'[q] = cached[q]
  <2>1. CASE Call(p)
    BY <2>1 DEF Call, CloseUnregister, LinkCall, LinkMissing, UnlinkCall
  <2>2. CASE GoOn(p)
    BY <2>2 DEF GoOn, CloseAgain, CloseShut, NotifyDeliver, CloseDone, NotifyFound, NotifyMissing,
                LinkAdd, LinkClosed, TellFound, TellMissing, TellDeliver, Unlink
  <2> QED BY <2>1, <2>2
<1> QED BY <1>1, <1>2

\* Each step of a call in progress preserves the invariant.
LEMMA GoOnLinkInv ==
  ASSUME LinkInv, NEW p \in Procs, GoOn(p)
  PROVE  LinkInv'
<1> USE LinkAssumption DEF LinkInv, Goto, Lock, Unlock, Deliver, LinkReturn, locals, history, Labels
<1>1. CASE CloseAgain(p)
  BY <1>1 DEF CloseAgain, TypeOK, LeftOK, ClosedHasLeft, HolderOK, NoticeOwedOrPaid
<1>2. CASE CloseShut(p)
  BY <1>2 DEF CloseShut, TypeOK, LeftOK, ClosedHasLeft, HolderOK, NoticeOwedOrPaid
<1>3. CASE NotifyDeliver(p)
  BY <1>3 DEF NotifyDeliver, TypeOK, LeftOK, ClosedHasLeft, HolderOK, NoticeOwedOrPaid
<1>4. CASE CloseDone(p)
  BY <1>4 DEF CloseDone, TypeOK, LeftOK, ClosedHasLeft, HolderOK, NoticeOwedOrPaid
<1>5. ASSUME NEW t \in Mailboxes, NotifyFound(p, t) PROVE LinkInv'
  BY <1>5 DEF NotifyFound, TypeOK, LeftOK, ClosedHasLeft, HolderOK, NoticeOwedOrPaid
<1>6. ASSUME NEW t \in Mailboxes, NotifyMissing(p, t) PROVE LinkInv'
  BY <1>6 DEF NotifyMissing, TypeOK, LeftOK, ClosedHasLeft, HolderOK, NoticeOwedOrPaid
<1>7. CASE LinkAdd(p)
  BY <1>7 DEF LinkAdd, TypeOK, LeftOK, ClosedHasLeft, HolderOK, NoticeOwedOrPaid
<1>8. CASE LinkClosed(p)
  BY <1>8 DEF LinkClosed, TypeOK, LeftOK, ClosedHasLeft, HolderOK, NoticeOwedOrPaid
<1>9. CASE TellFound(p)
  BY <1>9 DEF TellFound, TypeOK, LeftOK, ClosedHasLeft, HolderOK, NoticeOwedOrPaid
<1>10. CASE TellMissing(p)
  BY <1>10 DEF TellMissing, TypeOK, LeftOK, ClosedHasLeft, HolderOK, NoticeOwedOrPaid
<1>11. CASE TellDeliver(p)
  BY <1>11 DEF TellDeliver, TypeOK, LeftOK, ClosedHasLeft, HolderOK, NoticeOwedOrPaid
<1>12. CASE Unlink(p)
  BY <1>12 DEF Unlink, TypeOK, LeftOK, ClosedHasLeft, HolderOK, NoticeOwedOrPaid
<1> QED
  BY <1>1, <1>2, <1>3, <1>4, <1>5, <1>6, <1>7, <1>8, <1>9, <1>10, <1>11, <1>12 DEF GoOn

\* The first step of each call preserves the invariant.
LEMMA CallLinkInv ==
  ASSUME LinkInv, NEW p \in Procs, Call(p)
  PROVE  LinkInv'
<1> USE LinkAssumption DEF LinkInv, Goto, Begin, history, Labels
<1>1. ASSUME NEW a \in Mailboxes, CloseUnregister(p, a) PROVE LinkInv'
  <2>1. TypeOK'
    BY <1>1 DEF CloseUnregister, TypeOK
  <2>2. LeftOK'
    <3>1. CASE a \in table
      BY <1>1, <3>1 DEF CloseUnregister, TypeOK, LeftOK
    <3>2. CASE a \notin table
      BY <1>1, <3>2 DEF CloseUnregister, TypeOK, LeftOK
    <3> QED
      BY <3>1, <3>2
  <2>3. ClosedHasLeft' /\ HolderOK'
    BY <1>1 DEF CloseUnregister, TypeOK, ClosedHasLeft, HolderOK
  <2>4. NoticeOwedOrPaid'
    BY <1>1 DEF CloseUnregister, TypeOK, HolderOK, NoticeOwedOrPaid
  <2> QED
    BY <2>1, <2>2, <2>3, <2>4
<1>2. ASSUME NEW a \in Mailboxes, NEW t \in Mailboxes, LinkCall(p, a, t) PROVE LinkInv'
  BY <1>2 DEF LinkCall, TypeOK, LeftOK, ClosedHasLeft, HolderOK, NoticeOwedOrPaid
<1>3. ASSUME NEW a \in Mailboxes, NEW t \in Mailboxes, LinkMissing(p, a, t) PROVE LinkInv'
  BY <1>3 DEF LinkMissing, TypeOK, LeftOK, ClosedHasLeft, HolderOK, NoticeOwedOrPaid
<1>4. ASSUME NEW a \in Mailboxes, NEW t \in Mailboxes, UnlinkCall(p, a, t) PROVE LinkInv'
  BY <1>4 DEF UnlinkCall, TypeOK, LeftOK, ClosedHasLeft, HolderOK, NoticeOwedOrPaid
<1> QED
  BY <1>1, <1>2, <1>3, <1>4 DEF Call

LEMMA StepLinkInv == LinkInv /\ [Next]_vars => LinkInv'
<1> SUFFICES ASSUME LinkInv, [Next]_vars PROVE LinkInv'
  OBVIOUS
<1>1. CASE UNCHANGED vars
  BY <1>1 DEF vars, LinkInv, TypeOK, LeftOK, ClosedHasLeft, HolderOK, NoticeOwedOrPaid
<1>2. CASE Next
  BY <1>2, CallLinkInv, GoOnLinkInv DEF Next
<1> QED
  BY <1>1, <1>2

\* The mutex and table discipline holds in every reachable state.
THEOREM LinksInvariant == Spec => []LinkInv
<1>1. Init => LinkInv
  BY InitLinkInv
<1>2. LinkInv /\ [Next]_vars => LinkInv'
  BY StepLinkInv
<1> QED
  BY <1>1, <1>2, PTL DEF Spec

\* Every address whose OnCloseNotify returned, and that was not removed since, has
\* been told of the close or is still on the list that will tell it -- for any
\* number of mailboxes linked, closed and unlinked at the same time.
THEOREM LinksAreAnswered == Spec => []NoticeOwedOrPaid
<1>1. LinkInv => NoticeOwedOrPaid
  BY DEF LinkInv
<1> QED
  BY <1>1, LinksInvariant, PTL

-----------------------------------------------------------------------------
(* Mutexes are taken in the order mailboxes leave the table, late links aside *)

LEMMA InitOrderInv ==
  Init => OrderInv
  BY InitLinkInv DEF Init, OrderInv, WaitsGoForward, TypeOK, LinkInv

LEMMA GoOnOrderInv ==
  ASSUME OrderInv, LinkInv', NEW p \in Procs, GoOn(p)
  PROVE  OrderInv'
<1> USE DEF OrderInv, LinkInv, TypeOK, Goto, Lock, Unlock, Deliver, LinkReturn, locals, history, Labels
<1>1. CASE CloseAgain(p)
  BY <1>1 DEF CloseAgain, WaitsGoForward
<1>2. CASE CloseShut(p)
  BY <1>2 DEF CloseShut, WaitsGoForward
<1>3. CASE NotifyDeliver(p)
  BY <1>3 DEF NotifyDeliver, WaitsGoForward
<1>4. CASE CloseDone(p)
  BY <1>4, LinkAssumption DEF CloseDone, WaitsGoForward
<1>5. ASSUME NEW t \in Mailboxes, NotifyFound(p, t) PROVE OrderInv'
  BY <1>5 DEF NotifyFound, WaitsGoForward
<1>6. ASSUME NEW t \in Mailboxes, NotifyMissing(p, t) PROVE OrderInv'
  BY <1>6 DEF NotifyMissing, WaitsGoForward
<1>7. CASE LinkAdd(p)
  BY <1>7 DEF LinkAdd, WaitsGoForward
<1>8. CASE LinkClosed(p)
  BY <1>8 DEF LinkClosed, WaitsGoForward
<1>9. CASE TellFound(p)
  BY <1>9 DEF TellFound, WaitsGoForward
<1>10. CASE TellMissing(p)
  BY <1>10, LinkAssumption DEF TellMissing, WaitsGoForward
<1>11. CASE TellDeliver(p)
  BY <1>11, LinkAssumption DEF TellDeliver, WaitsGoForward
<1>12. CASE Unlink(p)
  BY <1>12 DEF Unlink, WaitsGoForward
<1> QED
  BY <1>1, <1>2, <1>3, <1>4, <1>5, <1>6, <1>7, <1>8, <1>9, <1>10, <1>11, <1>12 DEF GoOn

\* A mailbox that leaves the table leaves it later than all that left before.
LEMMA CallOrderInv ==
  ASSUME OrderInv, LinkInv', NEW p \in Procs, Call(p)
  PROVE  OrderInv'
<1> USE LinkAssumption DEF OrderInv, LinkInv, TypeOK, Goto, Begin, history, Labels
<1>1. ASSUME NEW a \in Mailboxes, CloseUnregister(p, a) PROVE OrderInv'
  <2>1. WaitsGoForward'
    <3> SUFFICES ASSUME NEW q \in Procs, mu'[at'[q]] = q,
                        pc'[q] = "notifyLock" \/ (pc'[q] = "tellLock" /\ ~cached'[q])
                 PROVE  to'[q] \in table' \/ left'[at'[q]] < left'[to'[q]]
      BY DEF WaitsGoForward
    <3>1. /\ q # p /\ pc[q] = pc'[q] /\ at'[q] = at[q] /\ to'[q] = to[q] /\ cached'[q] = cached[q]
          /\ mu[at[q]] = q /\ closed[at[q]] /\ at[q] \notin table
      BY <1>1 DEF CloseUnregister, HolderOK, ClosedHasLeft
    <3>2. to[q] \in table \/ left[at[q]] < left[to[q]]
      BY <3>1 DEF WaitsGoForward
    <3>3. left[at[q]] <= clock
      BY DEF LeftOK
    <3>4. CASE a \in table /\ to[q] = a
      <4>1. left'[a] = clock + 1 /\ left'[at[q]] = left[at[q]]
        BY <1>1, <3>1, <3>4 DEF CloseUnregister
      <4> QED
        BY <3>1, <3>3, <3>4, <4>1
    <3>5. CASE ~(a \in table /\ to[q] = a)
      <4>1. left'[at[q]] = left[at[q]]
        BY <1>1, <3>1 DEF CloseUnregister
      <4>2. CASE to[q] \in table
        BY <1>1, <3>1, <3>5, <4>2 DEF CloseUnregister
      <4>3. CASE to[q] \notin table
        <5>1. left'[to[q]] = left[to[q]]
          BY <1>1, <4>3 DEF CloseUnregister
        <5> QED
          BY <3>1, <3>2, <4>1, <4>3, <5>1
      <4> QED
        BY <4>2, <4>3
    <3> QED
      BY <3>4, <3>5
  <2> QED
    BY <2>1
<1>w. ASSUME UNCHANGED <<table, mu, left>>, pc'[p] \in {"linkLock", "telling", "unlinkLock"}
      PROVE  WaitsGoForward'
  <2>1. \A q \in Procs : q # p => /\ pc'[q] = pc[q] /\ cached'[q] = cached[q]
                                  /\ at'[q] = at[q] /\ to'[q] = to[q]
    BY LocalsAreOwn
  <2> QED BY <1>w, <2>1 DEF WaitsGoForward
<1>2. ASSUME NEW a \in Mailboxes, NEW t \in Mailboxes, LinkCall(p, a, t) PROVE OrderInv'
  <2>1. UNCHANGED <<table, mu, left>> /\ pc'[p] = "linkLock"
    BY <1>2 DEF LinkCall
  <2>2. WaitsGoForward'
    BY <1>w, <2>1
  <2> HIDE DEF LinkInv, TypeOK
  <2> QED
    BY <2>2
<1>3. ASSUME NEW a \in Mailboxes, NEW t \in Mailboxes, LinkMissing(p, a, t) PROVE OrderInv'
  <2>1. UNCHANGED <<table, mu, left>> /\ pc'[p] = "telling"
    BY <1>3 DEF LinkMissing
  <2>2. WaitsGoForward'
    BY <1>w, <2>1
  <2> HIDE DEF LinkInv, TypeOK
  <2> QED
    BY <2>2
<1>4. ASSUME NEW a \in Mailboxes, NEW t \in Mailboxes, UnlinkCall(p, a, t) PROVE OrderInv'
  <2>1. UNCHANGED <<table, mu, left>> /\ pc'[p] = "unlinkLock"
    BY <1>4 DEF UnlinkCall
  <2>2. WaitsGoForward'
    BY <1>w, <2>1
  <2> HIDE DEF LinkInv, TypeOK
  <2> QED
    BY <2>2
<1> QED
  BY <1>1, <1>2, <1>3, <1>4 DEF Call

LEMMA StepOrderInv == OrderInv /\ [Next]_vars => OrderInv'
<1> SUFFICES ASSUME OrderInv, [Next]_vars PROVE OrderInv'
  OBVIOUS
<1>1. LinkInv'
  BY StepLinkInv DEF OrderInv
<1>2. CASE UNCHANGED vars
  BY <1>1, <1>2 DEF vars, OrderInv, WaitsGoForward
<1>3. CASE Next
  BY <1>1, <1>3, CallOrderInv, GoOnOrderInv DEF Next
<1> QED
  BY <1>2, <1>3

\* Less-than on the natural numbers is well-founded, so a bounded set of numbers has
\* a greatest element.
LessThan == {p \in Nat \X Nat : p[1] < p[2]}

LEMMA LessThanWellFounded == IsWellFoundedOn(LessThan, Nat)
<1>1. OpToRel(<, Nat) = LessThan
  BY DEF OpToRel, LessThan
<1> QED
  BY <1>1, NatLessThanWellFounded

LEMMA Greatest ==
  ASSUME NEW N \in Nat, NEW R \in SUBSET (0..N), R # {}
  PROVE  \E r \in R : \A s \in R : s <= r
<1> DEFINE T == {N - r : r \in R}
<1>1. T \subseteq Nat /\ T # {}
  <2>1. \A r \in R : N - r \in Nat
    OBVIOUS
  <2>2. T \subseteq Nat
    BY <2>1
  <2>3. T # {}
    OBVIOUS
  <2> QED
    BY <2>2, <2>3
<1>2. PICK x \in T : \A y \in T : ~ (<<y, x>> \in LessThan)
  <2> HIDE DEF T
  <2> QED
    BY <1>1, WFMin, LessThanWellFounded
<1>3. \A y \in T : ~ (y < x)
  BY <1>1, <1>2 DEF LessThan
<1>4. PICK r \in R : x = N - r
  OBVIOUS
<1>5. \A s \in R : s <= r
  <2> SUFFICES ASSUME NEW s \in R PROVE s <= r
    OBVIOUS
  <2>1. N - s \in T
    OBVIOUS
  <2>2. ~ (N - s < N - r)
    BY <1>3, <1>4, <2>1
  <2>3. s \in 0..N /\ r \in 0..N
    OBVIOUS
  <2> HIDE DEF T
  <2> QED
    BY <2>2, <2>3
<1> QED
  BY <1>5

\* Of the mailboxes of a circle one left the table last.  What it waits for has left
\* no later, so it was not found in the table but in the target of a late link.
LEMMA ForwardIsAcyclic == OrderInv => OnlyLateLinksDeadlock
<1> SUFFICES ASSUME OrderInv, NEW S \in SUBSET Mailboxes, S # {}, Circle(S)
             PROVE  \E a, t \in S : LateForGone(a, t)
  BY DEF OnlyLateLinksDeadlock
<1>1. \A a, t \in S : WaitsFor(a, t) =>
        a \notin table /\ (LateForGone(a, t) \/ t \in table \/ left[a] < left[t])
  <2> SUFFICES ASSUME NEW a \in S, NEW t \in S, WaitsFor(a, t)
               PROVE  a \notin table /\ (LateForGone(a, t) \/ t \in table \/ left[a] < left[t])
    OBVIOUS
  <2>1. PICK p \in Procs : mu[a] = p /\ pc[p] \in {"notifyLock", "tellLock"} /\ to[p] = t
    BY DEF WaitsFor
  <2>2. at[p] = a /\ a \notin table /\ left[a] \in Nat /\ left[t] \in Nat
    BY <2>1 DEF OrderInv, LinkInv, TypeOK, HolderOK, ClosedHasLeft
  <2>3. CASE pc[p] = "tellLock" /\ cached[p]
    BY <2>1, <2>2, <2>3 DEF LateForGone
  <2>4. CASE pc[p] = "notifyLock" \/ (pc[p] = "tellLock" /\ ~cached[p])
    BY <2>1, <2>2, <2>4 DEF OrderInv, WaitsGoForward
  <2> QED
    BY <2>1, <2>2, <2>3, <2>4
<1>2. \A a \in S : a \notin table
  BY <1>1 DEF Circle
<1> DEFINE R == {left[a] : a \in S}
<1>3. clock \in Nat /\ R \in SUBSET (0..clock) /\ R # {}
  BY DEF OrderInv, LinkInv, TypeOK, LeftOK
<1>4. PICK r \in R : \A s \in R : s <= r
  BY <1>3, Greatest
<1>5. PICK a \in S : left[a] = r
  OBVIOUS
<1>6. PICK t \in S : WaitsFor(a, t)
  BY DEF Circle
<1>7. left[a] \in Nat /\ left[t] \in Nat /\ left[t] <= left[a]
  BY <1>4, <1>5 DEF OrderInv, LinkInv, TypeOK
<1>8. ~ (left[a] < left[t])
  BY <1>7
<1> QED
  BY <1>1, <1>2, <1>6, <1>8

\* Whoever is about to lock a mailbox it looked up, with the mutex of another held,
\* found it in the table when the other had left (mailbox.go:788, 806-812).
THEOREM OrderInvariant == Spec => []OrderInv
<1>1. Init => OrderInv
  BY InitOrderInv
<1>2. OrderInv /\ [Next]_vars => OrderInv'
  BY StepOrderInv
<1> QED
  BY <1>1, <1>2, PTL DEF Spec

\* However targets are found, and however many mailboxes are linked to each other in
\* whatever way and closed at once: their mutexes deadlock only around an
\* OnCloseNotify of a closed mailbox for an address that carries one which had left
\* the table by then.
THEOREM NoDeadlock == Spec => []OnlyLateLinksDeadlock
<1>1. Spec => []OrderInv
  BY OrderInvariant
<1> QED
  BY <1>1, ForwardIsAcyclic, PTL

-----------------------------------------------------------------------------
(* The links of mutexes and lists implement the links of CloseNotices *)

\* A step of a goroutine leaves what the other goroutines have to tell alone.
LEMMA OthersStay ==
  ASSUME TypeOK, NEW p \in Procs, Call(p) \/ GoOn(p), NEW q \in Procs, q # p
  PROVE  DueOf(q)' = DueOf(q)
BY LocalsAreOwn DEF DueOf

\* So what p has to tell decides what becomes of all notices that are due.
LEMMA DueKept ==
  ASSUME TypeOK, NEW p \in Procs, Call(p) \/ GoOn(p), DueOf(p)' = DueOf(p)
  PROVE  Due' = Due
<1>1. \A q \in Procs : DueOf(q)' = DueOf(q)
  BY OthersStay
<1> QED BY <1>1 DEF Due

LEMMA DueGrows ==
  ASSUME TypeOK, NEW p \in Procs, Call(p) \/ GoOn(p), NEW N, DueOf(p) = {}, DueOf(p)' = N
  PROVE  Due' = Due \cup N
<1>1. \A q \in Procs : q # p => DueOf(q)' = DueOf(q)
  BY OthersStay
<1>2. Due' = UNION {DueOf(q)' : q \in Procs}
  BY DEF Due
<1> QED BY <1>1, <1>2 DEF Due

LEMMA DueSettled ==
  ASSUME TypeOK, NEW p \in Procs, Call(p) \/ GoOn(p), NEW n \in DueOf(p), DueOf(p)' = DueOf(p) \ {n}
  PROVE  n \in Due /\ Due' \in {Due, Due \ {n}}
<1>1. \A q \in Procs : q # p => DueOf(q)' = DueOf(q)
  BY OthersStay
<1>2. n \in Due /\ Due' = UNION {DueOf(q)' : q \in Procs}
  BY DEF Due
<1>3. CASE \E q \in Procs : q # p /\ n \in DueOf(q)
  <2>1. Due' = Due
    BY <1>1, <1>2, <1>3 DEF Due
  <2> QED BY <1>2, <2>1
<1>4. CASE \A q \in Procs : q # p => n \notin DueOf(q)
  <2>1. Due' = Due \ {n}
    BY <1>1, <1>2, <1>4 DEF Due
  <2> QED BY <1>2, <2>1
<1> QED BY <1>3, <1>4

\* The mapped variables follow from the tables and lists they are read from.
LEMMA PhaseKept == ASSUME UNCHANGED <<closed, table>> PROVE Phase' = Phase
  BY DEF Phase

LEMMA LinksKept == ASSUME UNCHANGED <<closed, notify>> PROVE Links' = Links
  BY DEF Links

LEMMA PhaseOf ==
  ASSUME LinkInv, NEW a \in Mailboxes
  PROVE  /\ Phase[a] = "closed" <=> closed[a]
         /\ Phase[a] = "open" <=> a \in table
BY DEF Phase, LinkInv, ClosedHasLeft

\* A step that none of the mapped variables shows.
LEMMA Unseen ==
  ASSUME LinkInv, NEW p \in Procs, Call(p) \/ GoOn(p),
         UNCHANGED <<table, closed, notify, told>>, DueOf(p)' = DueOf(p)
  PROVE  UNCHANGED Notices!vars
<1>1. Due' = Due
  BY DueKept DEF LinkInv
<1> QED BY <1>1, PhaseKept, LinksKept DEF Notices!vars

\* A call asks for a notice that is due at once.
LEMMA Asks ==
  ASSUME LinkInv, NEW p \in Procs, Call(p) \/ GoOn(p), NEW a \in Mailboxes, NEW t \in Mailboxes,
         a \notin table, UNCHANGED <<table, closed, notify, told>>,
         DueOf(p) = {}, DueOf(p)' = {<<a, t>>}
  PROVE  Notices!Next
<1>1. Due' = Due \cup {<<a, t>>}
  BY DueGrows DEF LinkInv
<1>2. Notices!AskLate(a, t)
  BY <1>1, PhaseOf, PhaseKept, LinksKept DEF Notices!AskLate
<1> QED BY <1>2 DEF Notices!Next

\* A notice is delivered, or its target has gone.
LEMMA Settles ==
  ASSUME LinkInv, NEW p \in Procs, Call(p) \/ GoOn(p), NEW a \in Mailboxes, NEW t \in Mailboxes,
         UNCHANGED <<table, closed, notify>>,
         <<a, t>> \in DueOf(p), DueOf(p)' = DueOf(p) \ {<<a, t>>},
         \/ ~closed[t] /\ told' = [told EXCEPT ![t] = @ \cup {a}]
         \/ t \notin table /\ UNCHANGED told
  PROVE  Notices!Next
<1>1. Notices!Settle(a, t)
  <2>1. <<a, t>> \in Due /\ Due' \in {Due, Due \ {<<a, t>>}}
    BY DueSettled DEF LinkInv
  <2> QED BY <2>1, PhaseKept, LinksKept DEF Notices!Settle
<1>2. Notices!Tell(a, t) \/ Notices!Miss(a, t)
  BY <1>1, PhaseOf DEF Notices!Tell, Notices!Miss
<1> QED BY <1>2 DEF Notices!Next

\* The target of a delivery that is shut has left the table.
LEMMA Delivers ==
  ASSUME LinkInv, NEW a \in Mailboxes, NEW t \in Mailboxes, Deliver(a, t)
  PROVE  \/ ~closed[t] /\ told' = [told EXCEPT ![t] = @ \cup {a}]
         \/ t \notin table /\ UNCHANGED told
BY DEF Deliver, LinkInv, ClosedHasLeft

\* The steps of a call in progress are steps of the links, or not seen there.
LEMMA GoOnRefines ==
  ASSUME LinkInv, NEW p \in Procs, GoOn(p)
  PROVE  [Notices!Next]_(Notices!vars)
<1>0. /\ pc \in [Procs -> Labels] /\ todo \in [Procs -> SUBSET Mailboxes]
      /\ to \in [Procs -> Mailboxes] /\ at \in [Procs -> Mailboxes]
      /\ notify \in [Mailboxes -> SUBSET Mailboxes] /\ closed \in [Mailboxes -> BOOLEAN]
      /\ at[p] \in Mailboxes /\ to[p] \in Mailboxes
  BY DEF LinkInv, TypeOK
<1> USE DEF Goto, locals, history, LinkReturn, Lock
<1>1. CASE CloseAgain(p)
  <2>1. UNCHANGED <<table, closed, notify, told>>
    BY <1>1 DEF CloseAgain
  <2>2. DueOf(p)' = DueOf(p)
    BY <1>0, <1>1 DEF CloseAgain, DueOf
  <2> QED BY <2>1, <2>2, Unseen
<1>2. CASE CloseShut(p)
  <2> DEFINE a == at[p]
  <2>1. a \notin table /\ ~closed[a] /\ UNCHANGED <<table, notify, told>>
        /\ closed' = [closed EXCEPT ![a] = TRUE]
    BY <1>2 DEF CloseShut, LinkInv, ClosedHasLeft
  <2>2. DueOf(p) = {} /\ DueOf(p)' = {a} \X Links[a]
    BY <1>0, <1>2, <2>1 DEF CloseShut, DueOf, Links
  <2>3. Due' = Due \cup {a} \X Links[a]
    BY <2>2, DueGrows DEF LinkInv
  <2>4. Phase[a] = "closing" /\ Phase' = [Phase EXCEPT ![a] = "closed"]
    BY <1>0, <2>1 DEF Phase
  <2>5. Links' = [Links EXCEPT ![a] = {}]
    BY <1>0, <2>1 DEF Links
  <2>6. Notices!Shut(a)
    BY <2>1, <2>3, <2>4, <2>5 DEF Notices!Shut
  <2> QED BY <1>0, <2>6 DEF Notices!Next
<1>3. CASE NotifyDeliver(p)
  <2>1. UNCHANGED <<table, closed, notify>>
        /\ \/ ~closed[to[p]] /\ told' = [told EXCEPT ![to[p]] = @ \cup {at[p]}]
           \/ to[p] \notin table /\ UNCHANGED told
    BY <1>0, <1>3, Delivers DEF NotifyDeliver
  <2>2. <<at[p], to[p]>> \in DueOf(p) /\ DueOf(p)' = DueOf(p) \ {<<at[p], to[p]>>}
    BY <1>0, <1>3 DEF NotifyDeliver, DueOf
  <2> QED BY <1>0, <2>1, <2>2, Settles
<1>4. CASE CloseDone(p)
  <2>1. UNCHANGED <<table, closed, told>> /\ notify' = [notify EXCEPT ![at[p]] = {}] /\ closed[at[p]]
    BY <1>0, <1>4 DEF CloseDone, LinkInv, HolderOK
  <2>2. DueOf(p)' = DueOf(p)
    BY <1>0, <1>4 DEF CloseDone, DueOf
  <2>3. Due' = Due
    BY <2>2, DueKept DEF LinkInv
  <2>4. Links' = Links
    BY <1>0, <2>1 DEF Links
  <2> QED BY <2>1, <2>3, <2>4, PhaseKept DEF Notices!vars
<1>5. ASSUME NEW t \in Mailboxes, NotifyFound(p, t) PROVE [Notices!Next]_(Notices!vars)
  <2>1. UNCHANGED <<table, closed, notify, told>>
    BY <1>5 DEF NotifyFound
  <2>2. DueOf(p)' = DueOf(p)
    BY <1>0, <1>5 DEF NotifyFound, DueOf
  <2> QED BY <2>1, <2>2, Unseen
<1>6. ASSUME NEW t \in Mailboxes, NotifyMissing(p, t) PROVE [Notices!Next]_(Notices!vars)
  <2>1. UNCHANGED <<table, closed, notify, told>> /\ t \notin table
    BY <1>6 DEF NotifyMissing
  <2>2. <<at[p], t>> \in DueOf(p) /\ DueOf(p)' = DueOf(p) \ {<<at[p], t>>}
    BY <1>0, <1>6 DEF NotifyMissing, DueOf
  <2> QED BY <1>0, <2>1, <2>2, Settles
<1>7. CASE LinkAdd(p)
  <2>1. UNCHANGED <<table, closed, told>> /\ ~closed[at[p]]
        /\ notify' = [notify EXCEPT ![at[p]] = @ \cup {to[p]}]
    BY <1>7 DEF LinkAdd
  <2>2. DueOf(p)' = DueOf(p)
    BY <1>0, <1>7 DEF LinkAdd, DueOf
  <2>3. Due' = Due
    BY <2>2, DueKept DEF LinkInv
  <2>4. Links' = [Links EXCEPT ![at[p]] = @ \cup {to[p]}]
    BY <1>0, <2>1 DEF Links
  <2>5. Notices!Link(at[p], to[p])
    BY <1>0, <2>1, <2>3, <2>4, PhaseOf, PhaseKept DEF Notices!Link
  <2> QED BY <1>0, <2>5 DEF Notices!Next
<1>8. CASE LinkClosed(p)
  <2>1. UNCHANGED <<table, closed, notify, told>> /\ at[p] \notin table
    BY <1>0, <1>8 DEF LinkClosed, LinkInv, ClosedHasLeft
  <2>2. DueOf(p) = {} /\ DueOf(p)' = {<<at[p], to[p]>>}
    BY <1>0, <1>8 DEF LinkClosed, DueOf
  <2> QED BY <1>0, <2>1, <2>2, Asks
<1>9. CASE TellFound(p)
  <2>1. UNCHANGED <<table, closed, notify, told>>
    BY <1>9 DEF TellFound
  <2>2. DueOf(p)' = DueOf(p)
    BY <1>0, <1>9 DEF TellFound, DueOf
  <2> QED BY <2>1, <2>2, Unseen
<1>10. CASE TellMissing(p)
  <2>1. UNCHANGED <<table, closed, notify, told>> /\ to[p] \notin table
    BY <1>10 DEF TellMissing
  <2>2. <<at[p], to[p]>> \in DueOf(p) /\ DueOf(p)' = DueOf(p) \ {<<at[p], to[p]>>}
    BY <1>0, <1>10 DEF TellMissing, DueOf
  <2> QED BY <1>0, <2>1, <2>2, Settles
<1>11. CASE TellDeliver(p)
  <2>1. UNCHANGED <<table, closed, notify>>
        /\ \/ ~closed[to[p]] /\ told' = [told EXCEPT ![to[p]] = @ \cup {at[p]}]
           \/ to[p] \notin table /\ UNCHANGED told
    BY <1>0, <1>11, Delivers DEF TellDeliver
  <2>2. <<at[p], to[p]>> \in DueOf(p) /\ DueOf(p)' = DueOf(p) \ {<<at[p], to[p]>>}
    BY <1>0, <1>11 DEF TellDeliver, DueOf
  <2> QED BY <1>0, <2>1, <2>2, Settles
<1>12. CASE Unlink(p)
  <2>1. UNCHANGED <<table, closed, told>> /\ notify' = [notify EXCEPT ![at[p]] = @ \ {to[p]}]
    BY <1>12 DEF Unlink
  <2>2. DueOf(p)' = DueOf(p)
    BY <1>0, <1>12 DEF Unlink, DueOf
  <2>3. Due' = Due
    BY <2>2, DueKept DEF LinkInv
  <2>4. CASE closed[at[p]]
    <3>1. Links' = Links
      BY <1>0, <2>1, <2>4 DEF Links
    <3> QED BY <2>1, <2>3, <3>1, PhaseKept DEF Notices!vars
  <2>5. CASE ~closed[at[p]]
    <3>1. Links' = [Links EXCEPT ![at[p]] = @ \ {to[p]}]
      BY <1>0, <2>1, <2>5 DEF Links
    <3>2. Notices!Unlink(at[p], to[p])
      BY <1>0, <2>1, <2>3, <2>5, <3>1, PhaseOf, PhaseKept DEF Notices!Unlink
    <3> QED BY <1>0, <3>2 DEF Notices!Next
  <2> QED BY <2>4, <2>5
<1> QED
  BY <1>1, <1>2, <1>3, <1>4, <1>5, <1>6, <1>7, <1>8, <1>9, <1>10, <1>11, <1>12 DEF GoOn

\* So is the first step of each call: only Close and a lookup that fails are seen.
LEMMA CallRefines ==
  ASSUME LinkInv, NEW p \in Procs, Call(p)
  PROVE  [Notices!Next]_(Notices!vars)
<1>0. /\ pc \in [Procs -> Labels] /\ todo \in [Procs -> SUBSET Mailboxes]
      /\ to \in [Procs -> Mailboxes] /\ at \in [Procs -> Mailboxes]
  BY DEF LinkInv, TypeOK
<1> USE DEF Goto, Begin, history
<1>1. ASSUME NEW a \in Mailboxes, CloseUnregister(p, a) PROVE [Notices!Next]_(Notices!vars)
  <2>1. UNCHANGED <<closed, notify, told>> /\ table' = table \ {a}
    BY <1>1 DEF CloseUnregister
  <2>2. DueOf(p)' = DueOf(p)
    BY <1>0, <1>1 DEF CloseUnregister, DueOf
  <2>3. Due' = Due
    BY <1>1, <2>2, DueKept DEF LinkInv
  <2>4. CASE a \in table
    <3>1. ~closed[a]
      BY <2>4 DEF LinkInv, ClosedHasLeft
    <3>2. Phase' = [Phase EXCEPT ![a] = "closing"]
      BY <2>1, <3>1 DEF Phase
    <3>3. Notices!Leave(a)
      BY <2>1, <2>3, <2>4, <3>2, PhaseOf, LinksKept DEF Notices!Leave
    <3> QED BY <3>3 DEF Notices!Next
  <2>5. CASE a \notin table
    <3>1. table' = table
      BY <2>1, <2>5
    <3> QED BY <2>1, <2>3, <3>1, PhaseKept, LinksKept DEF Notices!vars
  <2> QED BY <2>4, <2>5
<1>2. ASSUME NEW a \in Mailboxes, NEW t \in Mailboxes, LinkCall(p, a, t)
      PROVE  [Notices!Next]_(Notices!vars)
  <2>1. UNCHANGED <<table, closed, notify, told>>
    BY <1>2 DEF LinkCall
  <2>2. DueOf(p)' = DueOf(p)
    BY <1>0, <1>2 DEF LinkCall, DueOf
  <2> QED BY <2>1, <2>2, Unseen
<1>3. ASSUME NEW a \in Mailboxes, NEW t \in Mailboxes, LinkMissing(p, a, t)
      PROVE  [Notices!Next]_(Notices!vars)
  <2>1. UNCHANGED <<table, closed, notify, told>> /\ a \notin table
    BY <1>3 DEF LinkMissing
  <2>2. DueOf(p) = {} /\ DueOf(p)' = {<<a, t>>}
    BY <1>0, <1>3 DEF LinkMissing, DueOf
  <2> QED BY <2>1, <2>2, Asks
<1>4. ASSUME NEW a \in Mailboxes, NEW t \in Mailboxes, UnlinkCall(p, a, t)
      PROVE  [Notices!Next]_(Notices!vars)
  <2>1. UNCHANGED <<table, closed, notify, told>>
    BY <1>4 DEF UnlinkCall
  <2>2. DueOf(p)' = DueOf(p)
    BY <1>0, <1>4 DEF UnlinkCall, DueOf
  <2> QED BY <2>1, <2>2, Unseen
<1> QED BY <1>1, <1>2, <1>3, <1>4 DEF Call

\* For any number of mailboxes and goroutines, and however targets are found, the
\* links of Close, OnCloseNotify and RemoveNotify (mailbox.go:551-604, 784-817) are
\* those of CloseNotices: linking, removing and shutting take effect at one moment
\* each, and who is told is settled there.
THEOREM LinksImplementNotices == Spec => ImplementsNotices
<1>1. Init => Notices!Init
  <2> SUFFICES ASSUME Init PROVE Notices!Init
    OBVIOUS
  <2>1. Due = {}
    BY DEF Init, Due, DueOf
  <2>2. Phase = [a \in Mailboxes |-> "open"] /\ Links = [a \in Mailboxes |-> {}]
    BY DEF Init, Phase, Links
  <2> QED BY <2>1, <2>2 DEF Init, Notices!Init
<1>2. LinkInv /\ [Next]_vars => [Notices!Next]_(Notices!vars)
  <2> SUFFICES ASSUME LinkInv, [Next]_vars PROVE [Notices!Next]_(Notices!vars)
    OBVIOUS
  <2>1. CASE Next
    BY <2>1, CallRefines, GoOnRefines DEF Next
  <2>2. CASE UNCHANGED vars
    <3>1. Due' = Due
      BY <2>2 DEF vars, Due, DueOf
    <3> QED BY <2>2, <3>1, PhaseKept, LinksKept DEF vars, Notices!vars
  <2> QED BY <2>1, <2>2
<1> QED
  BY <1>1, <1>2, LinksInvariant, PTL DEF Spec, ImplementsNotices, Notices!Spec
=============================================================================

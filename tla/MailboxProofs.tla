--------------------------- MODULE MailboxProofs ---------------------------
(***************************************************************************)
(* Proofs about Mailbox for any number of goroutines and any messages: the *)
(* inductive invariant, the safety properties that follow from it, and     *)
(* that the mailbox implements MessageQueue.                               *)
(***************************************************************************)
EXTENDS Mailbox, SequenceTheorems, TLAPS

-----------------------------------------------------------------------------
(* Facts about sequences *)

\* A non-empty sequence is its head followed by its tail.
LEMMA HeadTail ==
  ASSUME NEW S, NEW s \in Seq(S), s # <<>>
  PROVE  /\ Head(s) \in S
         /\ Tail(s) \in Seq(S)
         /\ s = <<Head(s)>> \o Tail(s)
         /\ Len(Tail(s)) = Len(s) - 1
  OBVIOUS

\* The channel's buffer holds nothing or one message.
LEMMA ShortSeq ==
  ASSUME NEW S, NEW s \in Seq(S), Len(s) <= 1, s # <<>>
  PROVE  Tail(s) = <<>> /\ s = <<Head(s)>>
<1>1. Len(s) = 1
  <2>1. Len(s) \in Nat \ {0}
    BY EmptySeq
  <2> QED
    BY <2>1
<1>2. Tail(s) \in Seq(S) /\ Len(Tail(s)) = 0
  BY <1>1, HeadTailProperties
<1>3. Tail(s) = <<>>
  BY <1>2, EmptySeq
<1>4. s = <<s[1]>>
  <2>1. s[1] \in S
    BY <1>1, ElementOfSeq
  <2>2. <<s[1]>> \in Seq(S) /\ Len(<<s[1]>>) = 1 /\ <<s[1]>>[1] = s[1]
    BY <2>1
  <2>3. \A i \in 1..Len(s) : s[i] = <<s[1]>>[i]
    BY <1>1, <2>2
  <2> QED BY <1>1, <2>2, <2>3, SeqEqual
<1> QED
  BY <1>3, <1>4

\* Appending to a sequence and taking its head leaves a sequence again.
LEMMA AppendHeadTail ==
  ASSUME NEW S, NEW s \in Seq(S), NEW m \in S
  PROVE  /\ Append(s, m) \in Seq(S)
         /\ Append(s, m) # <<>>
         /\ Append(s, m) = s \o <<m>>
         /\ Head(Append(s, m)) \in S
         /\ Tail(Append(s, m)) \in Seq(S)
         /\ <<Head(Append(s, m))>> \o Tail(Append(s, m)) = Append(s, m)
  OBVIOUS

\* Removing an element of a sequence leaves a sequence.
LEMMA RemoveAtType ==
  ASSUME NEW S, NEW s \in Seq(S), NEW i \in 1..Len(s)
  PROVE  RemoveAt(s, i) \in Seq(S)
  BY DEF RemoveAt

\* Removing behind the first element of a sequence leaves that element alone.
LEMMA RemoveAtBehind ==
  ASSUME NEW S, NEW s \in Seq(S), NEW x \in S, NEW i \in 1..Len(s)
  PROVE  RemoveAt(<<x>> \o s, i + 1) = <<x>> \o RemoveAt(s, i)
<1> DEFINE t == <<x>> \o s
<1>1. /\ t \in Seq(S) /\ Len(t) = Len(s) + 1
      /\ 1 \in 1..Len(t) /\ i \in 1..Len(t)
      /\ <<x>> \in Seq(S) /\ Len(<<x>>) = 1
  BY ConcatProperties
<1>2. SubSeq(t, 1, i) = <<x>> \o SubSeq(s, 1, i - 1)
  OBVIOUS
<1>3. SubSeq(t, i + 2, Len(t)) = SubSeq(s, i + 1, Len(s))
  <2>1. CASE i = Len(s)
    BY <1>1, <2>1, SubSeqEmpty
  <2>2. CASE i < Len(s)
    <3>1. /\ i + 2 \in Len(<<x>>) + 1 .. Len(<<x>>) + Len(s)
          /\ Len(t) \in Len(<<x>>) + 1 .. Len(<<x>>) + Len(s)
          /\ (i + 2) - Len(<<x>>) = i + 1 /\ Len(t) - Len(<<x>>) = Len(s)
      BY <1>1, <2>2
    <3> QED
      BY <1>1, <3>1, SubSeqOfConcat2
  <2> QED
    BY <2>1, <2>2
<1> DEFINE a == SubSeq(s, 1, i - 1)
           b == SubSeq(s, i + 1, Len(s))
<1>4. a \in Seq(S) /\ b \in Seq(S)
  OBVIOUS
<1>5. RemoveAt(s, i) = a \o b /\ RemoveAt(t, i + 1) = (<<x>> \o a) \o b
  <2>1. (i + 1) - 1 = i /\ (i + 1) + 1 = i + 2
    OBVIOUS
  <2> HIDE DEF t
  <2> QED
    BY <1>2, <1>3, <2>1 DEF RemoveAt
<1> HIDE DEF a, b
<1>6. (<<x>> \o a) \o b = <<x>> \o (a \o b)
  BY <1>1, <1>4, ConcatAssociative
<1> QED
  BY <1>5, <1>6

\* Removing the first element of a sequence.
LEMMA RemoveAtFront ==
  ASSUME NEW S, NEW s \in Seq(S), NEW x \in S
  PROVE  RemoveAt(<<x>> \o s, 1) = s
  BY DEF RemoveAt

\* Concatenation with the empty sequence, and of three sequences.
LEMMA ConcatFacts ==
  ASSUME NEW S, NEW a \in Seq(S), NEW b \in Seq(S), NEW c \in Seq(S)
  PROVE  /\ <<>> \o a = a
         /\ a \o <<>> = a
         /\ a \o b \in Seq(S)
         /\ (a \o b) \o c = a \o (b \o c)
  OBVIOUS

-----------------------------------------------------------------------------
(* The inductive invariant *)

LEMMA InitIInv == Init => IInv
<1> SUFFICES ASSUME Init PROVE IInv
  OBVIOUS
<1> USE DEF Init, Procs, Labels, WaitLabels, HoldLabels, RestLabels
<1>1. TypeOK
  <2>1. <<>> \in Seq(Messages) /\ Len(<<>>) <= 1
    OBVIOUS
  <2> QED BY <2>1 DEF TypeOK
<1>2. MutexHeldInside
  BY RolesAssumption DEF MutexHeldInside
<1> QED
  BY <1>1, <1>2 DEF IInv, RoleOK, HeldOK, PutIsSafe, ClosedIsDrained, NoStranded

\* The refill moves the first message of the slice to an empty channel, leaves the
\* messages and their order alone, and leaves no message behind an empty channel.
LEMMA MoveUpFacts ==
  ASSUME TypeOK, MoveUp
  PROVE  /\ chan' \in Seq(Messages) /\ Len(chan') <= 1
         /\ messages' \in Seq(Messages)
         /\ chan' \o messages' = chan \o messages
         /\ messages = <<>> => chan' = chan /\ messages' = messages
         /\ chan' = <<>> => messages' = <<>>
<1>1. CASE messages # <<>> /\ chan = <<>>
  <2>1. chan' = <<Head(messages)>> /\ messages' = Tail(messages)
    BY <1>1 DEF MoveUp
  <2>2. /\ Head(messages) \in Messages /\ Tail(messages) \in Seq(Messages)
        /\ messages = <<Head(messages)>> \o Tail(messages)
    BY <1>1, HeadTail DEF TypeOK
  <2>3. chan \o messages = messages
    BY <1>1, ConcatEmptySeq DEF TypeOK
  <2>4. chan' \in Seq(Messages) /\ Len(chan') = 1 /\ chan' # <<>>
    BY <2>1, <2>2
  <2> QED
    BY <1>1, <2>1, <2>2, <2>3, <2>4
<1>2. CASE ~(messages # <<>> /\ chan = <<>>)
  BY <1>2 DEF MoveUp, TypeOK
<1> QED
  BY <1>1, <1>2

\* A step of send preserves the invariant.
LEMMA SendKeepsIInv ==
  ASSUME IInv, NEW s \in Senders, Send(s)
  PROVE  IInv'
<1> USE RolesAssumption DEF IInv, Procs, Labels, WaitLabels, HoldLabels, RestLabels, Goto, Hold
<1>1. CASE SendCall(s)
  BY <1>1
     DEF SendCall, TypeOK, RoleOK, HeldOK, MutexHeldInside,
         PutIsSafe, ClosedIsDrained, NoStranded
<1>2. CASE SendRefused(s)
  BY <1>2
     DEF SendRefused, TypeOK, RoleOK, HeldOK, MutexHeldInside,
         PutIsSafe, ClosedIsDrained, NoStranded
<1>3. CASE SendTakePrev(s)
  BY <1>3
     DEF SendTakePrev, TypeOK, RoleOK, HeldOK, MutexHeldInside,
         PutIsSafe, ClosedIsDrained, NoStranded
<1>4. CASE SendPutBack(s)
  BY <1>4
     DEF SendPutBack, TypeOK, RoleOK, HeldOK, MutexHeldInside,
         PutIsSafe, ClosedIsDrained, NoStranded
<1>5. CASE SendDirect(s)
  <2>1. /\ held[s] \in Messages /\ messages \in Seq(Messages)
        /\ chan' = <<Head(Append(messages, held[s]))>>
        /\ messages' = Tail(Append(messages, held[s]))
    BY <1>5 DEF SendDirect, TypeOK, HeldOK
  <2>2. /\ chan' \in Seq(Messages) /\ Len(chan') = 1 /\ chan' # <<>>
        /\ messages' \in Seq(Messages)
    BY <2>1, AppendHeadTail
  <2>3. TypeOK' /\ RoleOK' /\ HeldOK' /\ MutexHeldInside'
    BY <1>5, <2>2 DEF SendDirect, TypeOK, RoleOK, HeldOK, MutexHeldInside
  <2>4. PutIsSafe'
    BY <1>5 DEF SendDirect, RoleOK, PutIsSafe, MutexHeldInside
  <2>5. ClosedIsDrained' /\ NoStranded'
    BY <1>5, <2>2 DEF SendDirect, ClosedIsDrained, NoStranded
  <2> QED
    BY <2>3, <2>4, <2>5
<1> QED
  BY <1>1, <1>2, <1>3, <1>4, <1>5 DEF Send

\* A step of Receive preserves the invariant.
LEMMA ReceiveKeepsIInv ==
  ASSUME IInv, NEW r \in Receivers, Receive(r)
  PROVE  IInv'
<1> USE RolesAssumption DEF IInv, Procs, Labels, WaitLabels, HoldLabels, RestLabels, Goto, Hold
<1>1. CASE Take(r)
  BY <1>1
     DEF Take, TypeOK, RoleOK, HeldOK, MutexHeldInside,
         PutIsSafe, ClosedIsDrained, NoStranded
<1>2. CASE Refill(r)
  <2>1. TypeOK' /\ (chan' = <<>> => messages' = <<>>)
    BY <1>2, MoveUpFacts DEF Refill, TypeOK
  <2>2. RoleOK' /\ HeldOK' /\ MutexHeldInside' /\ PutIsSafe'
    BY <1>2 DEF Refill, TypeOK, RoleOK, HeldOK, MutexHeldInside, PutIsSafe
  <2>3. ClosedIsDrained'
    BY <1>2, MoveUpFacts DEF Refill, ClosedIsDrained
  <2>4. NoStranded'
    BY <2>1 DEF NoStranded
  <2> QED
    BY <2>1, <2>2, <2>3, <2>4
<1>3. CASE TakeClosed(r)
  BY <1>3
     DEF TakeClosed, TypeOK, RoleOK, HeldOK, MutexHeldInside,
         PutIsSafe, ClosedIsDrained, NoStranded
<1>4. CASE Cancel(r)
  BY <1>4
     DEF Cancel, TypeOK, RoleOK, HeldOK, MutexHeldInside,
         PutIsSafe, ClosedIsDrained, NoStranded
<1> QED
  BY <1>1, <1>2, <1>3, <1>4 DEF Receive

\* A step of ReceiveMatch preserves the invariant.
LEMMA MatchKeepsIInv ==
  ASSUME IInv, NEW p \in Matchers, ReceiveMatch(p)
  PROVE  IInv'
<1> USE RolesAssumption DEF IInv, Procs, Labels, WaitLabels, HoldLabels, RestLabels, Goto, Hold
<1>1. CASE MatchTake(p)
  BY <1>1
     DEF MatchTake, TypeOK, RoleOK, HeldOK, MutexHeldInside,
         PutIsSafe, ClosedIsDrained, NoStranded
<1>2. CASE MatchFindsClosed(p)
  BY <1>2
     DEF MatchFindsClosed, TypeOK, RoleOK, HeldOK, MutexHeldInside,
         PutIsSafe, ClosedIsDrained, NoStranded
<1>3. CASE MatchRecheck(p)
  BY <1>3
     DEF MatchRecheck, TypeOK, RoleOK, HeldOK, MutexHeldInside,
         PutIsSafe, ClosedIsDrained, NoStranded
<1>4. CASE MatchHeld(p)
  <2>1. ~closed /\ held[p] \in Messages
    BY <1>4 DEF MatchHeld, PutIsSafe, HeldOK
  <2>2. TypeOK' /\ (chan' = <<>> => messages' = <<>>)
    BY <1>4, <2>1, MoveUpFacts DEF MatchHeld, TypeOK
  <2>3. RoleOK' /\ HeldOK' /\ MutexHeldInside'
    BY <1>4 DEF MatchHeld, TypeOK, RoleOK, HeldOK, MutexHeldInside
  <2>4. PutIsSafe'
    BY <1>4 DEF MatchHeld, TypeOK, PutIsSafe, MutexHeldInside
  <2>5. ClosedIsDrained' /\ NoStranded'
    BY <1>4, <2>1, <2>2 DEF MatchHeld, ClosedIsDrained, NoStranded
  <2> QED
    BY <2>2, <2>3, <2>4, <2>5
<1>5. CASE MatchLater(p)
  <2>1. /\ ~closed /\ chan = <<>> /\ held[p] \in Messages
        /\ \A q \in Procs : mu = q => q = p
    BY <1>5 DEF MatchLater, PutIsSafe, HeldOK, MutexHeldInside
  <2>2. /\ chan' = <<held[p]>> /\ chan' \in Seq(Messages) /\ Len(chan') = 1 /\ chan' # <<>>
    BY <1>5, <2>1 DEF MatchLater
  <2>3. PICK i \in 1..Len(messages) :
          /\ messages[i] \in Matching
          /\ got' = Append(got, messages[i])
          /\ messages' = RemoveAt(messages, i)
    BY <1>5 DEF MatchLater
  <2>4. messages' \in Seq(Messages) /\ got' \in Seq(Messages)
    BY <2>3, RemoveAtType DEF TypeOK
  <2>5. TypeOK' /\ RoleOK' /\ HeldOK' /\ MutexHeldInside'
    BY <1>5, <2>2, <2>4 DEF MatchLater, TypeOK, RoleOK, HeldOK, MutexHeldInside
  <2>6. PutIsSafe'
    BY <1>5 DEF MatchLater, TypeOK, PutIsSafe, MutexHeldInside
  <2>7. ClosedIsDrained' /\ NoStranded'
    BY <1>5, <2>1, <2>2 DEF MatchLater, ClosedIsDrained, NoStranded
  <2> QED
    BY <2>5, <2>6, <2>7
<1>6. CASE MatchNone(p)
  BY <1>6
     DEF MatchNone, TypeOK, RoleOK, HeldOK, MutexHeldInside,
         PutIsSafe, ClosedIsDrained, NoStranded
<1>7. CASE TakeClosed(p)
  BY <1>7
     DEF TakeClosed, TypeOK, RoleOK, HeldOK, MutexHeldInside,
         PutIsSafe, ClosedIsDrained, NoStranded
<1>8. CASE Cancel(p)
  BY <1>8
     DEF Cancel, TypeOK, RoleOK, HeldOK, MutexHeldInside,
         PutIsSafe, ClosedIsDrained, NoStranded
<1> QED
  BY <1>1, <1>2, <1>3, <1>4, <1>5, <1>6, <1>7, <1>8
     DEF ReceiveMatch

\* A step of Close preserves the invariant.
LEMMA CloseKeepsIInv ==
  ASSUME IInv, NEW c \in Closers, Close(c)
  PROVE  IInv'
<1> USE RolesAssumption DEF IInv, Procs, Labels, WaitLabels, HoldLabels, RestLabels, Goto, Hold
<1>1. CASE CloseUnregister(c)
  <2>1. TypeOK' /\ RoleOK' /\ HeldOK'
    <3>1. TypeOK'
      BY <1>1 DEF CloseUnregister, TypeOK
    <3>2. RoleOK'
      BY <1>1 DEF CloseUnregister, TypeOK, RoleOK
    <3>3. HeldOK'
      BY <1>1 DEF CloseUnregister, TypeOK, RoleOK, HeldOK
    <3> QED BY <3>1, <3>2, <3>3
  <2>2. MutexHeldInside' /\ PutIsSafe' /\ ClosedIsDrained'
    BY <1>1 DEF CloseUnregister, TypeOK, RoleOK, MutexHeldInside, PutIsSafe, ClosedIsDrained
  <2>3. NoStranded'
    <3>1. \A q \in Procs : pc[q] # "idle" => pc'[q] = pc[q]
      BY <1>1 DEF CloseUnregister, TypeOK
    <3> QED
      BY <1>1, <3>1 DEF CloseUnregister, NoStranded
  <2> QED
    BY <2>1, <2>2, <2>3
<1>2. CASE CloseAgain(c)
  BY <1>2
     DEF CloseAgain, TypeOK, RoleOK, HeldOK, MutexHeldInside,
         PutIsSafe, ClosedIsDrained, NoStranded
<1>3. CASE CloseShut(c)
  BY <1>3
     DEF CloseShut, TypeOK, RoleOK, HeldOK, MutexHeldInside,
         PutIsSafe, ClosedIsDrained, NoStranded
<1>4. CASE CloseDone(c)
  BY <1>4
     DEF CloseDone, TypeOK, RoleOK, HeldOK, MutexHeldInside,
         PutIsSafe, ClosedIsDrained, NoStranded
<1> QED
  BY <1>1, <1>2, <1>3, <1>4 DEF Close

LEMMA StepIInv == IInv /\ [Next]_vars => IInv'
<1> SUFFICES ASSUME IInv, [Next]_vars PROVE IInv'
  OBVIOUS
<1>1. CASE \E s \in Senders : Send(s)
  BY <1>1, SendKeepsIInv
<1>2. CASE \E r \in Receivers : Receive(r)
  BY <1>2, ReceiveKeepsIInv
<1>3. CASE \E p \in Matchers : ReceiveMatch(p)
  BY <1>3, MatchKeepsIInv
<1>4. CASE \E c \in Closers : Close(c)
  BY <1>4, CloseKeepsIInv
<1>5. CASE UNCHANGED vars
  BY <1>5 DEF vars, IInv, TypeOK, RoleOK, HeldOK, MutexHeldInside, PutIsSafe,
              ClosedIsDrained, NoStranded
<1> QED
  BY <1>1, <1>2, <1>3, <1>4, <1>5 DEF Next

\* Every reachable state of a mailbox satisfies the inductive invariant, whatever
\* the goroutines that use it.
THEOREM MailboxIInv == Spec => []IInv
<1>1. Init => IInv
  BY InitIInv
<1>2. IInv /\ [Next]_vars => IInv'
  BY StepIInv
<1> QED
  BY <1>1, <1>2, PTL DEF Spec

\* Type correctness: among others, the channel never holds more than its capacity.
THEOREM MailboxTypeOK == Spec => []TypeOK
<1>1. IInv => TypeOK
  BY DEF IInv
<1> QED
  BY <1>1, MailboxIInv, PTL

\* No goroutine ever puts a message on the channel when that would panic (closed)
\* or block for ever with the mutex held (full).
THEOREM MailboxPutIsSafe == Spec => []PutIsSafe
<1>1. IInv => PutIsSafe
  BY DEF IInv
<1> QED
  BY <1>1, MailboxIInv, PTL

\* No lost wakeup, for any number of receivers and senders.
THEOREM MailboxNoStranded == Spec => []NoStranded
<1>1. IInv => NoStranded
  BY DEF IInv
<1> QED
  BY <1>1, MailboxIInv, PTL

-----------------------------------------------------------------------------
(* The mailbox implements the queue *)

\* When there is a ReceiveMatch goroutine, TheMatcher names it.
LEMMA OneMatcher ==
  \A p \in Matchers : p = TheMatcher
  BY MatcherIsAlone DEF TheMatcher

\* A step that moves no matcher leaves its hand alone.
LEMMA HandFrame ==
  ASSUME \A p \in Matchers : pc'[p] = pc[p] /\ held'[p] = held[p]
  PROVE  InHand' = InHand
<1>1. Matchers # {} => TheMatcher \in Matchers
  BY DEF TheMatcher
<1> QED
  BY <1>1 DEF InHand

\* The hand of a matcher, seen from the matcher.
LEMMA HandOf ==
  ASSUME NEW p \in Matchers
  PROVE  /\ InHand = IF pc[p] \in {"matchLock", "matchTest"} THEN <<held[p]>> ELSE <<>>
         /\ InHand' = IF pc'[p] \in {"matchLock", "matchTest"} THEN <<held'[p]>> ELSE <<>>
  BY OneMatcher DEF InHand

\* Only a send between its two channel operations has a message in its window,
\* and then the channel is empty.
LEMMA WindowFacts ==
  ASSUME IInv
  PROVE  /\ mu \notin Senders => InWindow = <<>>
         /\ mu' \notin Senders => InWindow' = <<>>
         /\ mu = Free => InWindow = <<>>
         /\ mu' = Free => InWindow' = <<>>
         /\ chan # <<>> => InWindow = <<>>
<1>1. Free \notin Senders
  BY RolesAssumption DEF Procs
<1>2. ASSUME chan # <<>> PROVE mu \notin Senders
  <2> SUFFICES ASSUME mu \in Senders PROVE FALSE
    OBVIOUS
  <2>1. mu \in Procs /\ pc[mu] = "sendPutBack"
    BY DEF IInv, MutexHeldInside, RoleOK, HoldLabels, Procs
  <2> QED
    BY <1>2, <2>1 DEF IInv, PutIsSafe
<1> QED
  BY <1>1, <1>2 DEF InWindow

\* The parts the pending messages are made of are sequences of messages.
PartsOK == /\ InHand \in Seq(Messages) /\ InWindow \in Seq(Messages)
           /\ chan \in Seq(Messages) /\ messages \in Seq(Messages)

LEMMA PendingParts == IInv => PartsOK
<1> SUFFICES ASSUME IInv PROVE PartsOK
  OBVIOUS
<1>1. InHand \in Seq(Messages)
  <2>1. CASE Matchers = {}
    BY <2>1 DEF InHand
  <2>2. CASE Matchers # {}
    <3>1. TheMatcher \in Matchers
      BY <2>2 DEF TheMatcher
    <3> QED
      BY <3>1 DEF InHand, IInv, HeldOK, Procs
  <2> QED
    BY <2>1, <2>2
<1>2. InWindow \in Seq(Messages)
  <2>1. ASSUME mu \in Senders PROVE held[mu] \in Messages
    BY <2>1 DEF IInv, MutexHeldInside, RoleOK, HeldOK, HoldLabels, Procs
  <2> QED
    BY <2>1 DEF InWindow
<1> QED
  BY <1>1, <1>2 DEF PartsOK, IInv, TypeOK

\* A step that changes none of the parts is a stuttering step of the queue.
LEMMA PendingFrame ==
  ASSUME InHand' = InHand, InWindow' = InWindow, closed' = closed,
         chan' = chan, messages' = messages
  PROVE  Pending' = Pending
  BY DEF Pending

\* Four sequences concatenated, of which the second or third may be empty.
LEMMA ConcatFour ==
  ASSUME NEW S, NEW a \in Seq(S), NEW b \in Seq(S), NEW c \in Seq(S), NEW d \in Seq(S)
  PROVE  /\ a \o b \o c \o d \in Seq(S)
         /\ b = <<>> => a \o b \o c \o d = a \o (c \o d)
         /\ c = <<>> => a \o b \o c \o d = a \o (b \o d)
         /\ a = <<>> => a \o b \o c \o d = b \o (c \o d)
<1>1. a \o b \in Seq(S) /\ b \o c \in Seq(S) /\ c \o d \in Seq(S) /\ (a \o b) \o c \in Seq(S)
  BY ConcatProperties
<1>2. a \o b \o c \o d = (a \o b) \o (c \o d)
  <2> DEFINE ab == a \o b
  <2>1. ab \in Seq(S)
    BY <1>1
  <2> HIDE DEF ab
  <2>2. (ab \o c) \o d = ab \o (c \o d)
    BY <2>1, ConcatAssociative
  <2> QED BY <2>2 DEF ab
<1>3. (a \o b) \o (c \o d) = a \o (b \o (c \o d))
  BY <1>1, ConcatAssociative
<1>4. <<>> \o (c \o d) = c \o d /\ <<>> \o d = d
  BY <1>1, ConcatEmptySeq
<1>5. b \o (c \o d) \in Seq(S)
  BY <1>1, ConcatProperties
<1>6. <<>> \o (b \o (c \o d)) = b \o (c \o d)
  BY <1>5, ConcatEmptySeq
<1>7. a \o b \o c \o d \in Seq(S)
  BY <1>1, ConcatProperties
<1> QED
  BY <1>2, <1>3, <1>4, <1>6, <1>7

\* Appending at the end of a concatenation.
LEMMA ConcatAppend ==
  ASSUME NEW S, NEW a \in Seq(S), NEW b \in Seq(S), NEW m \in S
  PROVE  a \o Append(b, m) = Append(a \o b, m)
<1>1. a \o b \in Seq(S) /\ <<m>> \in Seq(S)
  BY ConcatProperties
<1>2. Append(b, m) = b \o <<m>> /\ Append(a \o b, m) = (a \o b) \o <<m>>
  BY <1>1, AppendIsConcat
<1> QED
  BY <1>1, <1>2, ConcatAssociative

\* The messages of an open mailbox while no send has one in its window.
LEMMA PendingOutside ==
  ASSUME IInv, ~closed, InWindow = <<>>
  PROVE  /\ Pending = InHand \o (chan \o messages)
         /\ InHand = <<>> => Pending = chan \o messages
<1>1. /\ InHand \in Seq(Messages) /\ InWindow \in Seq(Messages)
      /\ chan \in Seq(Messages) /\ messages \in Seq(Messages)
  BY PendingParts DEF PartsOK
<1>2. Pending = InHand \o (chan \o messages)
  BY <1>1, ConcatFour DEF Pending
<1>3. chan \o messages \in Seq(Messages)
  BY <1>1, ConcatProperties
<1> QED
  BY <1>2, <1>3, ConcatEmptySeq

\* The queue's own name for RemoveAt.
LEMMA QueueRemoveAt ==
  ASSUME NEW q, NEW i
  PROVE  Queue!RemoveAt(q, i) = RemoveAt(q, i)
  BY DEF RemoveAt, Queue!RemoveAt

\* A send that returns nil puts its message at the back; its other steps, the
\* taking out and the putting back, are invisible.
LEMMA SendRefines ==
  ASSUME IInv, IInv', NEW s \in Senders, Send(s)
  PROVE  [Queue!Next]_(Queue!vars)
<1> USE DEF Goto, Hold
<1>a. s \in Procs /\ s # Free
  BY RolesAssumption DEF Procs
<1>b. \A p \in Matchers : p # s
  BY RolesAssumption
<1>c. InHand' = InHand
  <2>1. \A p \in Matchers : pc'[p] = pc[p] /\ held'[p] = held[p]
    BY <1>b DEF Send, SendCall, SendRefused, SendTakePrev, SendPutBack, SendDirect, IInv, TypeOK, Procs
  <2> QED
    BY <2>1, HandFrame
<1>d. /\ InHand \in Seq(Messages) /\ InWindow \in Seq(Messages)
      /\ chan \in Seq(Messages) /\ messages \in Seq(Messages)
  BY PendingParts DEF PartsOK
<1>e. /\ InHand' \in Seq(Messages) /\ InWindow' \in Seq(Messages)
      /\ chan' \in Seq(Messages) /\ messages' \in Seq(Messages)
  <2>1. PartsOK'
    BY PendingParts, PTL
  <2> QED
    BY <2>1 DEF PartsOK
<1>1. CASE SendCall(s)
  <2>1. InWindow' = InWindow
    <3>1. mu # s
      BY <1>1, <1>a DEF SendCall, IInv, MutexHeldInside, HoldLabels
    <3> QED
      BY <1>1, <3>1 DEF SendCall, InWindow, IInv, TypeOK
  <2> QED
    BY <1>1, <1>c, <2>1, PendingFrame DEF SendCall, Queue!vars
<1>2. CASE SendRefused(s)
  BY <1>2, <1>c, PendingFrame DEF SendRefused, InWindow, Queue!vars
<1>3. CASE SendTakePrev(s)
  <2>1. ~closed /\ ~closed' /\ mu = Free /\ chan # <<>> /\ held[s] \in Messages
    <3>1. mu = Free /\ chan # <<>> /\ closed' = closed /\ pc[s] = "sendLock"
      BY <1>3 DEF SendTakePrev
    <3>2. ~closed
      BY <3>1 DEF IInv, ClosedIsDrained
    <3>3. held[s] \in Messages
      BY <1>a, <3>1 DEF IInv, HeldOK
    <3> QED BY <3>1, <3>2, <3>3
  <2>2. chan = <<Head(chan)>> /\ chan' = <<>> /\ messages' = Append(messages, held[s])
    BY <1>3, <2>1, ShortSeq DEF SendTakePrev, IInv, TypeOK
  <2>3. InWindow' = chan
    BY <1>3, <1>a, <2>2 DEF SendTakePrev, InWindow, IInv, TypeOK
  <2>4. Pending = InHand \o (chan \o messages)
    BY <2>1, WindowFacts, PendingOutside
  <2>5. Pending' = InHand \o (chan \o Append(messages, held[s]))
    BY <1>c, <1>e, <2>1, <2>2, <2>3, ConcatFour DEF Pending
  <2>6. Pending' = Append(Pending, held[s])
    <3> DEFINE m == held[s]
               cm == chan \o messages
    <3>1. cm \in Seq(Messages) /\ m \in Messages
      BY <1>d, <2>1, ConcatProperties
    <3>2. chan \o Append(messages, m) = Append(cm, m)
      BY <1>d, <3>1, ConcatAppend
    <3> HIDE DEF cm, m
    <3>3. InHand \o Append(cm, m) = Append(InHand \o cm, m)
      BY <1>d, <3>1, ConcatAppend
    <3> QED BY <2>4, <2>5, <3>2, <3>3 DEF cm, m
  <2>7. Queue!Put(held[s])
    <3>1. sent' = Append(sent, held[s]) /\ UNCHANGED <<closed, got>>
      BY <1>3 DEF SendTakePrev
    <3>2. UNCHANGED <<got, ~closed>>
      BY <3>1
    <3> QED BY <2>1, <2>6, <3>1, <3>2 DEF Queue!Put
  <2> QED
    BY <2>1, <2>7 DEF Queue!Next
<1>4. CASE SendPutBack(s)
  <2>1. ~closed /\ ~closed' /\ chan = <<>> /\ mu = s
    BY <1>4, <1>a DEF SendPutBack, IInv, PutIsSafe, MutexHeldInside, HoldLabels
  <2>2. chan' = InWindow /\ InWindow' = <<>>
    BY <1>4, <1>a, <2>1, WindowFacts DEF SendPutBack, InWindow
  <2>3. Pending = InHand \o (InWindow \o messages)
    BY <1>d, <2>1, ConcatFour DEF Pending
  <2>4. Pending' = InHand \o (InWindow \o messages)
    <3>1. Pending' = InHand' \o InWindow' \o chan' \o messages'
      BY <2>1 DEF Pending
    <3>2. InHand' \o InWindow' \o chan' \o messages' = InHand' \o (chan' \o messages')
      BY <1>e, <2>2, ConcatFour
    <3> QED
      BY <1>4, <1>c, <2>2, <3>1, <3>2 DEF SendPutBack
  <2> QED
    BY <1>4, <2>3, <2>4 DEF SendPutBack, Queue!vars
<1>5. CASE SendDirect(s)
  <2>1. ~closed /\ ~closed' /\ mu = Free /\ mu' = Free /\ chan = <<>> /\ held[s] \in Messages
    BY <1>5, <1>a DEF SendDirect, IInv, HeldOK
  <2>2. Pending = InHand \o messages
    <3>1. chan \o messages = messages
      BY <1>d, <2>1, ConcatEmptySeq
    <3> QED
      BY <2>1, <3>1, WindowFacts, PendingOutside
  <2>3. chan' \o messages' = Append(messages, held[s])
    BY <1>5, <1>d, <2>1, AppendHeadTail DEF SendDirect
  <2>4. Pending' = InHand \o Append(messages, held[s])
    <3>1. Pending' = InHand' \o InWindow' \o chan' \o messages' /\ InWindow' = <<>>
      BY <2>1, WindowFacts DEF Pending
    <3>2. InHand' \o InWindow' \o chan' \o messages' = InHand' \o (chan' \o messages')
      BY <1>e, <3>1, ConcatFour
    <3> QED
      BY <1>c, <2>3, <3>1, <3>2
  <2>5. Pending' = Append(Pending, held[s])
    BY <1>d, <2>1, <2>2, <2>4, ConcatAppend
  <2>6. Queue!Put(held[s])
    BY <1>5, <2>1, <2>5 DEF SendDirect, Queue!Put
  <2> QED
    BY <2>1, <2>6 DEF Queue!Next
<1> QED
  BY <1>1, <1>2, <1>3, <1>4, <1>5 DEF Send

\* Taking from the channel takes the front of the queue; the refill is invisible.
LEMMA ReceiveRefines ==
  ASSUME IInv, NEW r \in Receivers, Receive(r)
  PROVE  [Queue!Next]_(Queue!vars)
<1> USE DEF Goto, Hold
<1>a. r \in Procs /\ r \notin Senders /\ Matchers = {}
  BY RolesAssumption, MatcherIsAlone DEF Procs
<1>b. InHand = <<>> /\ InHand' = <<>>
  BY <1>a DEF InHand
<1>c. /\ InHand \in Seq(Messages) /\ InWindow \in Seq(Messages)
      /\ chan \in Seq(Messages) /\ messages \in Seq(Messages)
  BY PendingParts DEF PartsOK
<1>d. InWindow' = InWindow
  <2>1. mu' = mu /\ \A s \in Senders : held'[s] = held[s]
    BY <1>a DEF Receive, Take, Refill, TakeClosed, Cancel, IInv, TypeOK, Procs
  <2> QED
    BY <2>1 DEF InWindow
<1>1. CASE Take(r)
  <2>1. ~closed /\ ~closed' /\ chan # <<>>
    BY <1>1 DEF Take, IInv, ClosedIsDrained
  <2>2. chan = <<Head(chan)>> /\ chan' = <<>> /\ messages' = messages /\ Head(chan) \in Messages
    BY <1>1, <2>1, ShortSeq, HeadTail DEF Take, IInv, TypeOK
  <2>3. Pending = chan \o messages
    BY <1>b, <2>1, WindowFacts, PendingOutside
  <2>4. Pending' = messages
    <3>1. InWindow' = <<>>
      BY <1>d, <2>1, WindowFacts
    <3>2. Pending' = <<>> \o <<>> \o <<>> \o messages
      BY <1>b, <2>1, <2>2, <3>1 DEF Pending
    <3> QED
      BY <1>c, <3>2, ConcatFacts
  <2>5. /\ RemoveAt(Pending, 1) = messages
        /\ Pending # <<>> /\ Pending[1] = Head(chan)
    <3>1. PICK h \in Messages : h = Head(chan)
      BY <2>2
    <3>2. Pending = <<h>> \o messages
      BY <2>2, <2>3, <3>1
    <3>3. (<<h>> \o messages)[1] = h /\ <<h>> \o messages # <<>>
      BY <1>c
    <3>4. RemoveAt(<<h>> \o messages, 1) = messages
      BY <1>c, RemoveAtFront
    <3> QED
      BY <3>1, <3>2, <3>3, <3>4
  <2>7. Queue!Get
    BY <1>1, <2>1, <2>4, <2>5, QueueRemoveAt DEF Take, Queue!Get, Queue!Leave
  <2> QED
    BY <1>a, <2>7 DEF Queue!Next
<1>2. CASE Refill(r)
  <2>1. mu = Free /\ MoveUp /\ closed' = closed /\ UNCHANGED <<sent, got>>
    BY <1>2 DEF Refill
  <2>2. Pending' = Pending
    <3>1. CASE closed
      BY <2>1, <3>1 DEF Pending
    <3>2. CASE ~closed
      <4>1. chan' \o messages' = chan \o messages
        BY <2>1, MoveUpFacts DEF IInv
      <4>2. /\ chan' \in Seq(Messages) /\ messages' \in Seq(Messages)
        BY <2>1, MoveUpFacts DEF IInv
      <4>3. Pending = chan \o messages
        BY <1>b, <2>1, <3>2, WindowFacts, PendingOutside
      <4>4. Pending' = <<>> \o <<>> \o chan' \o messages'
        BY <1>b, <1>d, <2>1, <3>2, WindowFacts DEF Pending
      <4>5. <<>> \o <<>> \o chan' = chan'
        BY <4>2, ConcatFacts
      <4> QED
        BY <4>1, <4>3, <4>4, <4>5
    <3> QED
      BY <3>1, <3>2
  <2> QED
    BY <2>1, <2>2 DEF Queue!vars
<1>3. CASE TakeClosed(r)
  BY <1>3, <1>b, <1>d, PendingFrame DEF TakeClosed, Queue!vars
<1>4. CASE Cancel(r)
  BY <1>4, <1>b, <1>d, PendingFrame DEF Cancel, Queue!vars
<1> QED
  BY <1>1, <1>2, <1>3, <1>4 DEF Receive

\* Close empties the queue and shuts it, when it closes the channel.
LEMMA CloseRefines ==
  ASSUME IInv, NEW c \in Closers, Close(c)
  PROVE  [Queue!Next]_(Queue!vars)
<1> USE DEF Goto, Hold
<1>a. c \in Procs /\ c \notin Senders /\ c # Free
  BY RolesAssumption DEF Procs
<1>b. InHand' = InHand
  <2>1. \A p \in Matchers : pc'[p] = pc[p] /\ held'[p] = held[p]
    BY RolesAssumption DEF Close, CloseUnregister, CloseAgain, CloseShut, CloseDone, IInv, TypeOK, Procs
  <2> QED
    BY <2>1, HandFrame
<1>1. CASE CloseUnregister(c)
  BY <1>1, <1>b, PendingFrame DEF CloseUnregister, InWindow, Queue!vars
<1>2. CASE CloseAgain(c)
  BY <1>2, <1>b, PendingFrame DEF CloseAgain, InWindow, Queue!vars
<1>3. CASE CloseShut(c)
  <2>1. Queue!Shut
    BY <1>3 DEF CloseShut, Queue!Shut, Pending
  <2> QED
    BY <2>1 DEF Queue!Next
<1>4. CASE CloseDone(c)
  <2>1. closed /\ closed' /\ UNCHANGED <<sent, got>>
    BY <1>4 DEF CloseDone, IInv, ClosedIsDrained
  <2> QED
    BY <2>1 DEF Pending, Queue!vars
<1> QED
  BY <1>1, <1>2, <1>3, <1>4 DEF Close

\* A ReceiveMatch that returns a message removes the oldest one that matches; its
\* taking, judging and putting back are invisible.
LEMMA MatchRefines ==
  ASSUME Nil \notin Messages, IInv, NEW p \in Matchers, ReceiveMatch(p)
  PROVE  [Queue!Next]_(Queue!vars)
<1> USE DEF Goto, Hold
<1>a. p \in Procs /\ p \notin Senders /\ p # Free /\ Matchers # {}
  BY RolesAssumption DEF Procs
<1>b. /\ InHand = IF pc[p] \in {"matchLock", "matchTest"} THEN <<held[p]>> ELSE <<>>
      /\ InHand' = IF pc'[p] \in {"matchLock", "matchTest"} THEN <<held'[p]>> ELSE <<>>
  BY HandOf
<1>c. /\ InHand \in Seq(Messages) /\ InWindow \in Seq(Messages)
      /\ chan \in Seq(Messages) /\ messages \in Seq(Messages)
  BY PendingParts DEF PartsOK
<1>d. /\ \A q \in Senders : held'[q] = held[q]
      /\ pc \in [Procs -> Labels] /\ held \in [Procs -> Messages \cup {Nil}]
  BY <1>a DEF ReceiveMatch, MatchTake, MatchFindsClosed, MatchRecheck, MatchHeld, MatchLater,
              MatchNone, TakeClosed, Cancel, IInv, TypeOK, Procs
\* What a goroutine inside matchTest knows: the mailbox is open, the channel empty.
<1>e. ASSUME pc[p] = "matchTest"
      PROVE  /\ ~closed /\ chan = <<>> /\ held[p] \in Messages
             /\ InWindow = <<>>
             /\ Pending = <<held[p]>> \o messages
  <2>1. ~closed /\ chan = <<>> /\ held[p] \in Messages /\ mu = p
    BY <1>a, <1>e DEF IInv, PutIsSafe, HeldOK, MutexHeldInside, HoldLabels
  <2>2. InWindow = <<>> /\ InHand = <<held[p]>> /\ <<>> \o messages = messages
    BY <1>a, <1>b, <1>c, <1>e, <2>1, ConcatEmptySeq DEF InWindow
  <2> QED
    BY <2>1, <2>2, PendingOutside
<1>1. CASE MatchTake(p)
  <2>1. ~closed /\ chan # <<>> /\ InWindow = <<>> /\ InWindow' = <<>>
    <3>1. ~closed /\ chan # <<>> /\ mu' = mu
      BY <1>1 DEF MatchTake, IInv, ClosedIsDrained
    <3>2. mu \notin Senders
      BY <3>1 DEF IInv, MutexHeldInside, PutIsSafe, RoleOK, HoldLabels, Procs
    <3> QED
      BY <3>1, <3>2 DEF InWindow
  <2>2. /\ InHand = <<>> /\ InHand' = chan
        /\ chan' = <<>> /\ messages' = messages /\ closed' = closed
    BY <1>1, <1>a, <1>b, <1>d, <2>1, ShortSeq DEF MatchTake, IInv, TypeOK
  <2>3. Pending = chan \o messages
    BY <2>1, <2>2, PendingOutside
  <2>4. Pending' = chan \o <<>> \o <<>> \o messages
    BY <2>1, <2>2 DEF Pending
  <2>5. chan \o <<>> = chan
    BY <1>c, ConcatEmptySeq
  <2> QED
    BY <1>1, <2>3, <2>4, <2>5 DEF MatchTake, Queue!vars
<1>2. CASE MatchFindsClosed(p)
  BY <1>2 DEF MatchFindsClosed, Pending, Queue!vars
<1>3. CASE MatchRecheck(p)
  <2>1. /\ ~closed /\ ~closed' /\ InWindow = <<>> /\ InWindow' = <<>>
        /\ InHand' = InHand /\ chan' = <<>>
    BY <1>3, <1>a, <1>b, <1>d, WindowFacts DEF MatchRecheck, InWindow
  <2>2. messages' = chan \o messages
    <3>1. CASE chan = <<>>
      BY <1>3, <1>c, <3>1, ConcatEmptySeq DEF MatchRecheck
    <3>2. CASE chan # <<>>
      BY <1>3, <1>c, <3>2, HeadTail DEF MatchRecheck
    <3> QED
      BY <3>1, <3>2
  <2>3. Pending = InHand \o (chan \o messages)
    BY <2>1, PendingOutside
  <2>4. Pending' = InHand \o <<>> \o <<>> \o (chan \o messages)
    BY <2>1, <2>2 DEF Pending
  <2>5. InHand \o <<>> = InHand
    BY <1>c, ConcatEmptySeq
  <2> QED
    BY <1>3, <2>3, <2>4, <2>5 DEF MatchRecheck, Queue!vars
<1>4. CASE MatchHeld(p)
  <2>1. /\ pc[p] = "matchTest" /\ held[p] \in Matching /\ MoveUp /\ mu' = Free
        /\ got' = Append(got, held[p]) /\ closed' = closed /\ sent' = sent
        /\ InHand' = <<>>
    BY <1>4, <1>a, <1>b, <1>d DEF MatchHeld
  <2>2. Pending = <<held[p]>> \o messages /\ held[p] \in Messages /\ ~closed /\ chan = <<>>
    BY <1>e, <2>1
  <2>3. chan' \o messages' = messages /\ chan' \in Seq(Messages) /\ messages' \in Seq(Messages)
    BY <1>c, <2>1, <2>2, MoveUpFacts, ConcatEmptySeq DEF IInv
  <2>4. Pending' = <<>> \o <<>> \o chan' \o messages'
    BY <2>1, <2>2, WindowFacts DEF Pending
  <2>5. Pending' = messages
    <3>1. <<>> \o <<>> \o chan' = chan'
      BY <2>3, ConcatFacts
    <3> QED
      BY <2>3, <2>4, <3>1
  <2>6. RemoveAt(Pending, 1) = messages
    BY <1>c, <2>2, RemoveAtFront
  <2>7. 1 \in 1..Len(Pending) /\ Pending[1] = held[p]
    BY <1>c, <2>2
  <2>8. Queue!Leave(1)
    BY <2>1, <2>2, <2>5, <2>6, <2>7, QueueRemoveAt DEF Queue!Leave
  <2>9. Queue!GetMatch
    <3>1. \A j \in 1..(1 - 1) : Pending[j] \notin Matching
      OBVIOUS
    <3> QED
      BY <2>1, <2>7, <2>8, <3>1 DEF Queue!GetMatch
  <2> QED
    BY <1>a, <2>9 DEF Queue!Next
<1>5. CASE MatchLater(p)
  <2>1. /\ pc[p] = "matchTest" /\ held[p] \notin Matching /\ mu' = Free
        /\ closed' = closed /\ sent' = sent /\ InHand' = <<>>
        /\ chan' = Append(chan, held[p])
    BY <1>5, <1>a, <1>b, <1>d DEF MatchLater
  <2>2. Pending = <<held[p]>> \o messages /\ held[p] \in Messages /\ ~closed /\ chan = <<>>
    BY <1>e, <2>1
  <2>3. PICK i \in 1..Len(messages) :
          /\ messages[i] \in Matching
          /\ \A j \in 1..(i - 1) : messages[j] \notin Matching
          /\ got' = Append(got, messages[i])
          /\ messages' = RemoveAt(messages, i)
    BY <1>5 DEF MatchLater
  <2>4. chan' = <<held[p]>> /\ messages' \in Seq(Messages)
    <3>1. Append(<<>>, held[p]) = <<held[p]>>
      OBVIOUS
    <3>2. RemoveAt(messages, i) \in Seq(Messages)
      BY <1>c, RemoveAtType
    <3> QED
      BY <2>1, <2>2, <2>3, <3>1, <3>2
  <2>5. Pending' = <<held[p]>> \o RemoveAt(messages, i)
    <3>1. Pending' = <<>> \o <<>> \o <<held[p]>> \o RemoveAt(messages, i)
      BY <2>1, <2>2, <2>3, <2>4, WindowFacts DEF Pending
    <3>2. <<>> \o <<>> \o <<held[p]>> = <<held[p]>>
      BY <2>2, ConcatFacts
    <3> QED
      BY <3>1, <3>2
  <2>6. Pending' = RemoveAt(Pending, i + 1)
    BY <1>c, <2>2, <2>5, RemoveAtBehind
  <2>7. /\ i + 1 \in 1..Len(Pending)
        /\ \A j \in 1..Len(messages) : Pending[j + 1] = messages[j]
        /\ Pending[1] = held[p]
    BY <1>c, <2>2
  <2>8. \A j \in 1..((i + 1) - 1) : Pending[j] \notin Matching
    <3> SUFFICES ASSUME NEW j \in 1..i PROVE Pending[j] \notin Matching
      OBVIOUS
    <3>1. CASE j = 1
      BY <2>1, <2>7, <3>1
    <3>2. CASE j # 1
      <4>1. j - 1 \in 1..(i - 1) /\ j - 1 \in 1..Len(messages) /\ (j - 1) + 1 = j
        BY <1>c, <3>2
      <4> QED
        BY <2>3, <2>7, <4>1
    <3> QED
      BY <3>1, <3>2
  <2>9. Queue!Leave(i + 1) /\ Pending[i + 1] \in Matching
    BY <2>1, <2>2, <2>3, <2>6, <2>7, QueueRemoveAt DEF Queue!Leave
  <2>10. Queue!GetMatch
    BY <2>7, <2>8, <2>9 DEF Queue!GetMatch
  <2> QED
    BY <1>a, <2>10 DEF Queue!Next
<1>6. CASE MatchNone(p)
  <2>1. /\ pc[p] = "matchTest" /\ mu' = Free /\ InHand' = <<>> /\ messages' = messages
        /\ chan' = Append(chan, held[p]) /\ UNCHANGED <<closed, sent, got>>
    BY <1>6, <1>a, <1>b, <1>d DEF MatchNone
  <2>2. Pending = <<held[p]>> \o messages /\ held[p] \in Messages /\ ~closed /\ chan = <<>>
    BY <1>e, <2>1
  <2>3. chan' = <<held[p]>>
    BY <2>1, <2>2
  <2>4. Pending' = <<>> \o <<>> \o <<held[p]>> \o messages
    BY <2>1, <2>2, <2>3, WindowFacts DEF Pending
  <2>5. <<>> \o <<>> \o <<held[p]>> = <<held[p]>>
    BY <2>2, ConcatFacts
  <2> QED
    BY <2>1, <2>2, <2>4, <2>5 DEF Queue!vars
<1>7. CASE TakeClosed(p)
  <2>1. InHand' = InHand /\ InWindow' = InWindow
    BY <1>7, <1>a, <1>b, <1>d DEF TakeClosed, InWindow
  <2> QED
    BY <1>7, <2>1, PendingFrame DEF TakeClosed, Queue!vars
<1>8. CASE Cancel(p)
  <2>1. InHand' = InHand /\ InWindow' = InWindow
    BY <1>8, <1>a, <1>b, <1>d DEF Cancel, InWindow
  <2> QED
    BY <1>8, <2>1, PendingFrame DEF Cancel, Queue!vars
<1> QED
  BY <1>1, <1>2, <1>3, <1>4, <1>5, <1>6, <1>7, <1>8 DEF ReceiveMatch

\* Any number of senders, receivers and closers, or one ReceiveMatch loop: the
\* mailbox is a queue that loses, duplicates and reorders nothing while it is open.
\* ReceiveMatch needs that nobody sends nil, which it may drop.
THEOREM MailboxImplementsQueue ==
  ASSUME Matchers # {} => Nil \notin Messages
  PROVE  Spec => ImplementsQueue
<1>1. Init => Queue!Init
  <2> SUFFICES ASSUME Init PROVE Queue!Init
    OBVIOUS
  <2>1. InHand = <<>>
    <3>1. Matchers # {} => TheMatcher \in Procs
      BY DEF TheMatcher, Procs
    <3> QED
      BY <3>1 DEF Init, InHand
  <2>2. InWindow = <<>>
    BY RolesAssumption DEF Init, InWindow, Procs
  <2>3. <<>> \o <<>> \o <<>> \o <<>> = <<>>
    OBVIOUS
  <2>4. Pending = <<>>
    BY <2>1, <2>2, <2>3 DEF Init, Pending
  <2> QED
    BY <2>4 DEF Init, Queue!Init
<1>2. IInv /\ IInv' /\ [Next]_vars => [Queue!Next]_(Queue!vars)
  <2> SUFFICES ASSUME IInv, IInv', [Next]_vars
               PROVE  [Queue!Next]_(Queue!vars)
    OBVIOUS
  <2>1. CASE \E s \in Senders : Send(s)
    BY <2>1, SendRefines
  <2>2. CASE \E r \in Receivers : Receive(r)
    BY <2>2, ReceiveRefines
  <2>3. CASE \E p \in Matchers : ReceiveMatch(p)
    BY <2>3, MatchRefines
  <2>4. CASE \E c \in Closers : Close(c)
    BY <2>4, CloseRefines
  <2>5. CASE UNCHANGED vars
    BY <2>5 DEF vars, Queue!vars, Pending, InHand, InWindow
  <2> QED
    BY <2>1, <2>2, <2>3, <2>4, <2>5 DEF Next
<1> QED
  BY <1>1, <1>2, MailboxIInv, PTL DEF Spec, ImplementsQueue, Queue!Spec
=============================================================================

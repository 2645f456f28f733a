---------------------------- MODULE MessageQueue ----------------------------
(***************************************************************************)
(* What a reign Mailbox promises its users, with no lock, no channel and   *)
(* no slice: a queue in which a successful send joins at the back, from    *)
(* which a receiver takes the front message, or the oldest one its matcher *)
(* accepts, and which refuses messages once it has been shut.              *)
(* Mailbox.tla is shown to implement it.                                   *)
(***************************************************************************)
EXTENDS Sequences, SequencesExt, Naturals

CONSTANTS
  Messages,   \* the values that may be sent
  Matching,   \* the values the matcher of ReceiveMatch accepts
  Selective   \* TRUE when messages are taken with ReceiveMatch

VARIABLES
  queue,      \* accepted and not yet received, oldest first
  sent,       \* every message whose send returned nil, in order of acceptance
  got,        \* every message handed to a receiver, in order of removal
  open        \* FALSE once the mailbox was closed

vars == <<queue, sent, got, open>>

Init == queue = <<>> /\ sent = <<>> /\ got = <<>> /\ open = TRUE

\* A send that returns nil.
Put(m) == /\ open
          /\ queue' = Append(queue, m)
          /\ sent' = Append(sent, m)
          /\ UNCHANGED <<got, open>>

\* The i-th oldest message leaves the queue for a receiver.
Leave(i) == /\ open
             /\ got' = Append(got, queue[i])
             /\ queue' = RemoveAt(queue, i)
             /\ UNCHANGED <<sent, open>>

\* Receive and ReceiveAsync: the front.
Get == queue # <<>> /\ Leave(1)

\* ReceiveMatch: the oldest message that matches.
GetMatch == \E i \in 1..Len(queue) :
              /\ queue[i] \in Matching
              /\ \A j \in 1..(i - 1) : queue[j] \notin Matching
              /\ Leave(i)

\* Close: what nobody received is gone.
Shut == /\ open
        /\ open' = FALSE
        /\ queue' = <<>>
        /\ UNCHANGED <<sent, got>>

Next == \/ \E m \in Messages : Put(m)
        \/ ~Selective /\ Get
        \/ Selective /\ GetMatch
        \/ Shut

Spec == Init /\ [][Next]_vars
=============================================================================

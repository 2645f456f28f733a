\* Two senders of three messages, two receivers and two closers around one mailbox.
SPECIFICATION FairSpec
CONSTANTS
  Senders = {s1, s2}
  Receivers = {r1, r2}
  Matchers = {}
  Closers = {c1, c2}
  Messages = {a, b, c}
  Matching = {}
  Nil = nil
  Free = free
INVARIANTS PutIsSafe NoStranded
PROPERTIES ImplementsQueue EveryCallReturns EveryMessageReceived EveryReceiverTold
\* Senders run out of messages and receivers sleep: the system may stop.
CHECK_DEADLOCK FALSE

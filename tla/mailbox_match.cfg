\* ReceiveMatch against two senders and a closer, two messages of three matching.
SPECIFICATION StarvationFreeSpec
CONSTANTS
  Senders = {s1, s2}
  Receivers = {}
  Matchers = {p1}
  Closers = {c1}
  Messages = {x1, y1, y2}
  Matching = {y1, y2}
  Nil = nil
  Free = free
INVARIANT IInv
PROPERTIES ImplementsQueue EveryMatchReceived
\* The mutex leaks when ReceiveMatch finds the mailbox closed (mailbox_leak).
CHECK_DEADLOCK FALSE

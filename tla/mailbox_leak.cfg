\* ReceiveMatch meets a Close, and the mailbox is closed once more.
SPECIFICATION StarvationFreeSpec
CONSTANTS
  Senders = {s1}
  Receivers = {}
  Matchers = {p1}
  Closers = {c1, c2}
  Messages = {a}
  Matching = {}
  Nil = nil
  Free = free
PROPERTY CloseReturns
CHECK_DEADLOCK FALSE

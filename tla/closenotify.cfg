\* Two goroutines close, link and unlink two mailboxes, four calls in all: enough for
\* two linked mailboxes that close at once, and for a late link that crosses a close.
\* The targets of links carry their mailbox or are found by ID.
SPECIFICATION FairSpec
CONSTANTS
  Mailboxes = {a, b}
  Procs = {p, q}
  Free = free
  CachedTargets = {TRUE, FALSE}
  MaxCalls = 4
INVARIANTS OnlyLateLinksDeadlock NoticeOwedOrPaid
PROPERTIES ImplementsNotices EveryCallReturns LateLinkIsAnswered
\* The goroutines make a bounded number of calls, and a late link may hang them all.
CHECK_DEADLOCK FALSE

\* A closed mailbox is asked to tell itself, over the address New gave out, and then
\* to tell another: three calls.
SPECIFICATION FairSpec
CONSTANTS
  Mailboxes = {a, b}
  Procs = {p, q}
  Free = free
  CachedTargets = {TRUE}
  MaxCalls = 3
PROPERTIES LinkIsAnswered
CHECK_DEADLOCK FALSE

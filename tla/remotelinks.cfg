\* Two mailboxes link to one of the other node over two connections in turn,
\* whichever side dials.
SPECIFICATION FairSpec
CONSTANTS
  Local = {l1, l2}
  Remote = {r1}
  Dialers = {"near", "far"}
  MaxConns = 2
  MaxCalls = 4
INVARIANTS LinkInv LatestIsUsed
PROPERTIES NoticesAreTrue LinkIsAnswered
\* The mailboxes stop after their calls.
CHECK_DEADLOCK FALSE

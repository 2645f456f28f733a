\* Two names, two local mailboxes and one remote, a caller of Sync; four calls of
\* any kind, and every step of Serve is taken.
SPECIFICATION FairSpec
CONSTANTS
  Names = {x, y}
  Local = {l1, l2}
  Remote = {n1}
  Nodes = {n1}
  NodeOf <- MCNodeOf
  Syncers = {c1}
  MaxCalls = 4
INVARIANTS RegistryInv LastWordIsTrue LocalConflictIsNotified
PROPERTIES MailboxIsForgotten DeadClaimantGoes SyncReturns
\* The environment stops after its calls.
CHECK_DEADLOCK FALSE

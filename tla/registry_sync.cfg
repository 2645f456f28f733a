\* One claim, registered and unregistered; two connections one after the other,
\* whose handlers may overlap at the side that listens.
SPECIFICATION FairSpec
CONSTANTS
  Claims = {p}
  Dialers = {"owner", "viewer"}
  MaxConns = 2
  MaxCalls = 2
INVARIANTS SyncInv ViewsAgree
PROPERTY EventuallyAgree
\* The owner makes a bounded number of calls.
CHECK_DEADLOCK FALSE

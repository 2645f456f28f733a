\* Two connections in turn, one failure to dial, listen or accept, one of the nodes may
\* stop.
SPECIFICATION FairSpec
CONSTANTS
  Dialer = 1
  Listener = 2
  Specs <- MCSpecs
  MaxConns = 2
  MaxFaults = 1
  MaxStops = 1
INVARIANTS LifecycleInv StatusIsTrue
PROPERTIES StopEndsConnector StopEndsListener Reconnects
\* A node that stops rests.
CHECK_DEADLOCK FALSE

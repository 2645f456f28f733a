\* Pings every 5 units of time, messages that take up to two, a deadline of ten
\* ping intervals.
SPECIFICATION FairSpec
CONSTANTS
  PingInterval = 5
  Deadline = 50
  Delay = 2
  MaxFailures = 5
  MaxInFlight = 1
INVARIANTS TypeOK StaysAlive NoticedInTime
PROPERTY SilenceIsNoticed
\* The connection ends.
CHECK_DEADLOCK FALSE

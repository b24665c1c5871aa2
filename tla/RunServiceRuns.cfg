\* Two Runs, one cancel request, database faults, two ends of the process.
SPECIFICATION FairSpec
CONSTANTS
  r1 = r1
  r2 = r2
  c1 = c1
  c2 = c2
  Run = {r1, r2}
  Caller = {c1}
  Faults = TRUE
  MaxBoots = 2
\* The service idles when every Run has ended and every request is answered.
CHECK_DEADLOCK FALSE
INVARIANTS TypeOK CancelledOnRequest RunningIsOwned CancelReturnsFinish
PROPERTIES RunsEnd

\* Two instances, one feeding the other, one edit, two computations and one
\* publishing route or watcher beside the publish task.
SPECIFICATION FairSpec
CONSTANTS
  a = a
  b = b
  Order <- Chain
  Caller = {"c1"}
  MaxEdits = 1
  MaxJoins = 2
\* A Project at rest has nothing to publish.
CHECK_DEADLOCK FALSE
INVARIANTS TypeOK 
 

\* One Run and one cancel request suffice for the race.
SPECIFICATION Spec
CONSTANTS
  r1 = r1
  r2 = r2
  c1 = c1
  c2 = c2
  Run = {r1}
  Caller = {c1}
  Faults = FALSE
  MaxBoots = 0
CHECK_DEADLOCK FALSE
PROPERTIES FinishStands

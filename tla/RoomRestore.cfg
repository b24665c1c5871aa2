SPECIFICATION Spec
CONSTANTS
  t1 = t1 t2 = t2 e1 = e1 e2 = e2 s1 = s1 f1 = f1 p1 = p1
  Client = {t1} Batch = {s1, p1} Exact = {s1} Snapshot = {s1} Saving = {s1} Structural = {}
  Clash <- NoPairs Undo <- NoPairs Owner <- MCOwner
  MaxEpoch = 2 MaxConns = 2 MaxAsks = 1 MaxFails = 0 QueueCap = 2 Lags = TRUE
INVARIANT HeadIsTrue SavedIsSaved
PROPERTY NoDraftLost
CHECK_DEADLOCK FALSE

SPECIFICATION FairSpec
CONSTANTS
  t1 = t1 t2 = t2 e1 = e1 e2 = e2 s1 = s1 f1 = f1 p1 = p1
  Client = {t1} Batch = {e1, p1} Exact = {} Snapshot = {} Saving = {} Structural = {p1}
  Clash <- NoPairs Undo <- NoPairs Owner <- MCOwner
  MaxEpoch = 1 MaxConns = 2 MaxAsks = 1 MaxFails = 1 QueueCap = 2 Lags = FALSE
PROPERTY Settles
CHECK_DEADLOCK FALSE

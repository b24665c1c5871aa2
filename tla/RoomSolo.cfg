SPECIFICATION Spec
CONSTANTS
  t1 = t1 t2 = t2 e1 = e1 e2 = e2 s1 = s1 f1 = f1 p1 = p1
  Client = {t1} Batch = {e1, s1, p1} Exact = {e1, s1} Snapshot = {e1, s1} Saving = {s1} Structural = {p1}
  Clash <- NoPairs Undo <- NoPairs Owner <- MCOwner
  MaxEpoch = 1 MaxConns = 2 MaxAsks = 1 MaxFails = 0 QueueCap = 2 Lags = FALSE
INVARIANT TypeOK HeadIsTrue AppliedOnce  RetriesMatch SavedIsSaved  QuietRoomConverges
CHECK_DEADLOCK FALSE

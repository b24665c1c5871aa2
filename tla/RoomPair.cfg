SPECIFICATION Spec
CONSTANTS
  t1 = t1 t2 = t2 e1 = e1 e2 = e2 s1 = s1 f1 = f1 p1 = p1
  Client = {t1, t2} Batch = {e1, f1, p1} Exact = {} Snapshot = {} Saving = {} Structural = {}
  Clash <- NoPairs Undo <- NoPairs Owner <- MCOwner
  MaxEpoch = 1 MaxConns = 1 MaxAsks = 1 MaxFails = 0 QueueCap = 2 Lags = FALSE
INVARIANT HeadIsTrue QuietRoomConverges
CHECK_DEADLOCK FALSE

SPECIFICATION Spec
CONSTANTS
  t1 = t1 t2 = t2 e1 = e1 e2 = e2 s1 = s1 f1 = f1 p1 = p1
  Client = {t1} Batch = {e2, p1, f1} Exact = {} Snapshot = {} Saving = {} Structural = {}
  Clash <- PeerBlocksE2 Undo <- PeerUnblocks Owner <- MCOwner
  MaxEpoch = 1 MaxConns = 2 MaxAsks = 1 MaxFails = 0 QueueCap = 1 Lags = FALSE
INVARIANT QuietRoomConverges
PROPERTY RejectionStands
CHECK_DEADLOCK FALSE

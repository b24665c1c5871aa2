\* PersistentResultStore: other coroutines run while a store call is awaited.
SPECIFICATION Spec
CONSTANTS
  a = a
  b = b
  c = c
  r1 = r1
  r2 = r2
  r3 = r3
  Fingerprint = {a, b}
  Upstream <- ChainUpstream
  Run = {r1, r2}
  Concurrency = 1
  StoreYields = TRUE
SYMMETRY RunSymmetry
\* The scheduler idles once every Run is answered.
CHECK_DEADLOCK FALSE
INVARIANT SuccessIsWhole

\* InMemoryResultStore: a coroutine keeps the event loop across store calls.
SPECIFICATION Spec
CONSTANTS
  a = a
  b = b
  c = c
  r1 = r1
  r2 = r2
  r3 = r3
  Fingerprint = {a, b}
  Upstream <- ChainUpstream
  Run = {r1, r2, r3}
  Concurrency = 1
  StoreYields = FALSE
SYMMETRY RunSymmetry
\* The scheduler idles once every Run is answered.
CHECK_DEADLOCK FALSE
INVARIANTS SingleFlight UpstreamStored SuccessIsWhole WorkIsDemanded FailureIsOwn
PROPERTIES CancelNeedsNoDemand

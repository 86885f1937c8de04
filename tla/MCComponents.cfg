SPECIFICATION AllSpec
CONSTANTS
  Workers = {c1, c2}
  NoWorker = NoWorker
  MaxFailures = 2
  Window = 3
  Block = 2
  MaxTime = 3
  Registered = {w1, w2, w3}
  Stranger = unknown
  MaxWorkers = 2
  MaxNames = 3
  MaxIterations = 3
  Hosts = {h1, h2, h3}
  Allowed = {h1, h2}
  Unwritable = {h2}
  Public = {a1, a2}
  Private = {internal}
  Nowhere = nowhere
  MaxRedirects = 2
  MaxResponse = 2
  MaxAttempts = 2
  MaxBytes = 2
  MaxChunk = 2
  MaxMessages = 4
  Events = {e1, e2, e3}
  Urls = {u1, u2, u3}
  Precached = {u1}
  MaxEntries = 1
  h1 = h1
  e1 = e1
  e2 = e2
  u1 = u1
  u2 = u2
INVARIANTS AllTyped FailuresCounted PatternsHold FetchKeepsThePolicy BodyReplayed CacheBounded
PROPERTY EveryCallEnds
CHECK_DEADLOCK FALSE
